---- MODULE Spec2Model ----
(***************************************************************************)
(* Model of the position-lifecycle simulators of funding-fee-farmer        *)
(* (specification Spec):                                                   *)
(*   cv : scripts/analyze_cross_venue.py          simulate_trading         *)
(*   hl : scripts/analyze_hl_spot_hedge.py        simulate_trading         *)
(*   ss : scripts/analyze_funding_profitability.py simulate_strategy       *)
(* of its aligners and aggregators (specification AnalysisSpec):           *)
(*   align    : scripts/analyze_cross_venue.py    align_and_calculate_spreads *)
(*   strategy : scripts/analyze_hl_spot_hedge.py  analyze_strategy         *)
(*   profit   : scripts/analyze_cross_venue.py    analyze_profitability    *)
(* and of its paginated fetch loops (specification FetchSpec).             *)
(*                                                                         *)
(* The units below are those of the simulators; the aligners state theirs. *)
(* Units.  Time is in whole hours.  Rates, spreads, yields and cost rates  *)
(* are integers in units of 0.0001 (0.0005 is 5).  Position fractions are  *)
(* in percent (0.20 is 20).  Money is in units of 0.1 USD (10000 USD is    *)
(* 100000); a product rate * fraction * money is truncated to that unit.   *)
(***************************************************************************)
EXTENDS Integers, Sequences, FiniteSets, TLC

VARIABLES
    prog,           \* which function is called
    feed,           \* shape of the input list: "mixed", "burst" or "long"
    total,          \* len(spreads) / len(opportunities): length of the input list
    cfg,            \* the keyword arguments of the call
    pc,             \* "call" -> "loop" -> "returned" | "fault"
    n,              \* number of list elements the for loop has consumed
    first_ts,       \* spreads[0].timestamp
    opp,            \* the loop variable: the element processed last
    equity,
    positions,      \* list of (coin, entry_time, entry_spread, direction)
    new_positions,  \* positions left by the close phase of the last event
    trades,
    equity_curve,
    opened,         \* history: number of positions appended so far
    entry_log,      \* history: (coin, entry_time, cost) of every position opened
    result,         \* the returned dict
    ss_positions,   \* simulate_strategy: positions, symbol -> Position
    period_events,  \* simulate_strategy: events_by_time[ts] of the last period
    ss_totals,      \* simulate_strategy: the running metrics
    hl_data,        \* aligner input: coin -> list of HL records
    binance_data,   \* aligner input: coin -> list of (timestamp, rate_8h)
    coins_todo,     \* coins the outer for loop has not visited yet
    coin,           \* the outer loop variable
    idx,            \* number of records / periods of coin the inner loop has consumed
    spreads,        \* align_and_calculate_spreads: the list being built
    aligned,        \* history: per period processed, the records matched
    periods,        \* analyze_strategy: periods of coin, in insertion order
    opportunities,  \* analyze_strategy: the list being built
    stats,          \* analyze_strategy: the stats dict
    results,        \* analyze_profitability: the results dict being built
    calls,          \* history: the results returned by the earlier calls
    current_start,  \* fetch loops: the start cursor (current_start / current)
    end_time,       \* fetch loops: end of the requested range
    all_rates,      \* fetch loops: time of the last record of every page kept
    throttled,      \* history: number of 429 replies received
    timestamp_ms    \* align_to_funding_time: the argument

vars == <<prog, feed, total, cfg, pc, n, first_ts, opp, equity, positions,
          new_positions, trades, equity_curve, opened, entry_log, result,
          ss_positions, period_events, ss_totals,
          hl_data, binance_data, coins_todo, coin, idx, spreads, aligned,
          periods, opportunities, stats, results, calls,
          current_start, end_time, all_rates, throttled, timestamp_ms>>

\* state of the aligner and of the aggregators
an_vars == <<hl_data, binance_data, coins_todo, coin, idx, spreads, aligned,
             periods, opportunities, stats>>

\* state of the three simulators
run_vars == <<feed, total, cfg, n, first_ts, opp, equity, positions,
              new_positions, trades, equity_curve, opened, entry_log,
              ss_positions, period_events, ss_totals>>

\* state of analyze_profitability
agg_vars == <<results, calls>>

\* state of the paginated fetch loops and of align_to_funding_time
io_vars == <<current_start, end_time, all_rates, throttled, timestamp_ms>>

AggIdle ==
    /\ results = <<>>
    /\ calls = <<>>

IOIdle ==
    /\ current_start = 0
    /\ end_time = 0
    /\ all_rates = <<>>
    /\ throttled = 0
    /\ timestamp_ms = 0

sim_vars == <<equity, positions, new_positions, trades, equity_curve, entry_log>>

ss_vars == <<ss_positions, period_events, ss_totals>>

----------------------------------------------------------------------------
(* Bounds of the model *)

MaxEvents == 3

\* length of the longest list of the "long" feed: just above the 100 points
\* that equity_curve[-100:] keeps
LongLen == 98 + MaxEvents

----------------------------------------------------------------------------
(* Arithmetic helpers *)

Abs(x) == IF x < 0 THEN -x ELSE x

\* rate * fraction * amount, e.g. abs(entry_spread) * position_size_pct * equity
Frac(rate, pct, amount) == (rate * pct * amount) \div (10000 * 100)

Last(s) == s[Len(s)]

\* variant: s[:k]
LastN_Head(s, k) == IF Len(s) <= k THEN s ELSE SubSeq(s, 1, k)

\* s[-k:]
LastN(s, k) == IF Len(s) <= k THEN s ELSE SubSeq(s, Len(s) - k + 1, Len(s))

\* timedelta.days of a non-negative span given in hours
Days(hours) == hours \div 24

----------------------------------------------------------------------------
(* Inputs *)

AllCoins == <<"BTC", "ETH", "SOL", "XRP", "DOGE">>

CoinIdx(c) == CHOOSE i \in 1..Len(AllCoins) : AllCoins[i] = c

FeedCoins(f) ==
    IF f = "mixed" THEN {AllCoins[1], AllCoins[2]}
    ELSE IF f = "long" THEN {AllCoins[1]}
    ELSE {AllCoins[i] : i \in 1..Len(AllCoins)}

FeedMaxLen(f) ==
    IF f = "mixed" THEN MaxEvents
    ELSE IF f = "long" THEN LongLen
    ELSE Len(AllCoins)

\* lengths of the input list
FeedLens(f) ==
    IF f = "long" THEN (LongLen - 2)..LongLen ELSE 0..FeedMaxLen(f)

\* the "long" feed is one coin settling every 8 hours for over a month; it is
\* given to the two simulate_trading functions
Feeds(p) == IF p = "ss" THEN {"mixed", "burst"} ELSE {"mixed", "burst", "long"}

\* gaps (hours) between consecutive funding periods of the list
FeedGaps(p, f) ==
    IF f = "burst" THEN {}
    ELSE IF f = "long" THEN {8}
    ELSE IF p = "cv" THEN {4, 8} ELSE IF p = "hl" THEN {8, 16} ELSE {8}

\* variant: a zero spread counts as positive
Direction_NonNegative(spread) ==
    IF spread >= 0 THEN "long_binance_short_hl" ELSE "long_hl_short_binance"

\* direction as align_and_calculate_spreads sets it
Direction(spread) ==
    IF spread > 0 THEN "long_binance_short_hl" ELSE "long_hl_short_binance"

\* spread_8h values of SpreadOpportunity
CVSpreads(f) ==
    IF f = "mixed" THEN {-20, 3, 20} ELSE IF f = "long" THEN {20} ELSE {-20, 20}

\* (net_yield_8h, direction) values of StrategyOpportunity
HLYields(f) ==
    IF f = "mixed"
    THEN {<<6, "short_hl">>, <<30, "short_hl">>, <<30, "long_hl">>}
    ELSE IF f = "long" THEN {<<30, "short_hl">>}
    ELSE {<<20, "short_hl">>, <<12, "long_hl">>}

NoOpp == [timestamp |-> 0, coin |-> "none"]

\* The list is sorted by timestamp (sorted(..., key=timestamp), stable); the
\* events of one timestamp come in the producer's coin order, one per coin.
NextSlots(p, f, prev, k) ==
    IF k = 0 THEN {<<0, c>> : c \in FeedCoins(f)}
    ELSE {<<prev.timestamp + g, c>> : g \in FeedGaps(p, f), c \in FeedCoins(f)}
         \cup {<<prev.timestamp, c>> :
                 c \in {d \in FeedCoins(f) : CoinIdx(d) > CoinIdx(prev.coin)}}

CVEvents(f, prev, k) ==
    {[timestamp |-> s[1], coin |-> s[2], spread_8h |-> v, direction |-> Direction(v)] :
        s \in NextSlots("cv", f, prev, k), v \in CVSpreads(f)}

HLEvents(f, prev, k) ==
    {[timestamp |-> s[1], coin |-> s[2], net_yield_8h |-> y[1], direction |-> y[2]] :
        s \in NextSlots("hl", f, prev, k), y \in HLYields(f)}

\* datetime.now(timezone.utc), in hours after the first possible event
Now == 24 * 365

----------------------------------------------------------------------------
(* Call arguments: the defaults of each script, varied in max_positions and  *)
(* hold_periods; a zero capital; and the configurations the design rejects  *)
(* (negative capital, a position fraction of 0 or above 1, max_positions 0) *)

CVConfig(cap, pct, maxp, hold) ==
    [capital |-> cap, position_size_pct |-> pct, max_positions |-> maxp,
     min_spread |-> 5, hold_periods |-> hold, entry_cost |-> 3, exit_cost |-> 3]

HLConfig(cap, pct, maxp, hold) ==
    [capital |-> cap, position_pct |-> pct, max_positions |-> maxp,
     min_net_yield |-> 10, entry_cost |-> 10, exit_cost |-> 10,
     hold_periods |-> hold]

Configs(p, f) ==
    IF p = "cv" THEN
        IF f = "burst" THEN {CVConfig(100000, 20, 3, 1)}
        ELSE IF f = "long" THEN {CVConfig(100000, 20, 3, 1), CVConfig(0, 20, 3, 1)}
        ELSE {CVConfig(100000, 20, m, h) : m \in {1, 2}, h \in {1, 2}}
             \cup {CVConfig(0, 20, 1, 1)}
             \cup {CVConfig(-100000, 20, 1, 1), CVConfig(100000, 0, 1, 1),
                   CVConfig(100000, 150, 1, 1), CVConfig(100000, 20, 0, 1)}
    ELSE IF p = "ss" THEN
        IF f = "burst" THEN {[capital |-> 1000000]}
        ELSE {[capital |-> 1000000], [capital |-> 0], [capital |-> -1000000]}
    ELSE
        IF f = "burst" THEN {HLConfig(100000, 25, 4, 3)}
        ELSE IF f = "long" THEN {HLConfig(100000, 25, 4, 3), HLConfig(0, 25, 4, 3)}
        ELSE {HLConfig(100000, 25, m, h) : m \in {1, 2}, h \in {1, 3}}
             \cup {HLConfig(0, 25, 1, 1)}
             \cup {HLConfig(-100000, 25, 1, 1), HLConfig(100000, 0, 1, 1),
                   HLConfig(100000, 150, 1, 1), HLConfig(100000, 25, 0, 1)}

----------------------------------------------------------------------------
(* Shared pieces of the two simulate_trading loops *)

\* variant: strict comparison
Matured_Strict(pos, ts, hold_periods) ==
    (ts - pos.entry_time) * 3600 > hold_periods * (8 * 3600)

\* periods_held = (opp.timestamp - entry_time).total_seconds() / (8 * 3600);
\* periods_held >= hold_periods
Matured(pos, ts, hold_periods) ==
    (ts - pos.entry_time) * 3600 >= hold_periods * (8 * 3600)

PositionCoins(ps) == {ps[i].coin : i \in 1..Len(ps)}

----------------------------------------------------------------------------
(* scripts/analyze_cross_venue.py: simulate_trading *)

CVGross(pos, eq) == Frac(Abs(pos.entry_spread), cfg.position_size_pct, eq)

CVExitCosts(eq) == Frac(2 * cfg.exit_cost, cfg.position_size_pct, eq)

\* variant: one leg only
CVEntryCosts_OneLeg(eq) == Frac(cfg.entry_cost, cfg.position_size_pct, eq)

CVEntryCosts(eq) == Frac(2 * cfg.entry_cost, cfg.position_size_pct, eq)

\* variant: equity is credited with the gross P&L, the costs are forgotten
RECURSIVE CVClose_CreditGross(_, _, _, _, _, _)
CVClose_CreditGross(ps, i, ts, eq, keep, trs) ==
    IF i > Len(ps) THEN [equity |-> eq, new_positions |-> keep, trades |-> trs]
    ELSE IF Matured(ps[i], ts, cfg.hold_periods)
         THEN LET gross_pnl == CVGross(ps[i], eq)
                  costs == CVExitCosts(eq)
                  net_pnl == gross_pnl - costs
              IN CVClose_CreditGross(ps, i + 1, ts, eq + gross_pnl, keep,
                         Append(trs, [coin |-> ps[i].coin, entry |-> ps[i].entry_time,
                                      exit |-> ts, gross |-> gross_pnl, net |-> net_pnl]))
         ELSE CVClose_CreditGross(ps, i + 1, ts, eq, Append(keep, ps[i]), trs)

\* the close loop over positions, in list order; equity changes as it goes
RECURSIVE CVClose(_, _, _, _, _, _)
CVClose(ps, i, ts, eq, keep, trs) ==
    IF i > Len(ps) THEN [equity |-> eq, new_positions |-> keep, trades |-> trs]
    ELSE IF Matured(ps[i], ts, cfg.hold_periods)
         THEN LET gross_pnl == CVGross(ps[i], eq)
                  costs == CVExitCosts(eq)
                  net_pnl == gross_pnl - costs
              IN CVClose(ps, i + 1, ts, eq + net_pnl, keep,
                         Append(trs, [coin |-> ps[i].coin, entry |-> ps[i].entry_time,
                                      exit |-> ts, gross |-> gross_pnl, net |-> net_pnl]))
         ELSE CVClose(ps, i + 1, ts, eq, Append(keep, ps[i]), trs)

\* variant: the capacity test is missing
CVOpenCondition_NoCap(o, ps) ==
    /\ Abs(o.spread_8h) >= cfg.min_spread
    /\ o.coin \notin PositionCoins(ps)

\* variant: the threshold is tested on the signed spread
CVOpenCondition_Signed(o, ps) ==
    /\ o.spread_8h >= cfg.min_spread
    /\ Len(ps) < cfg.max_positions
    /\ o.coin \notin PositionCoins(ps)

CVOpenCondition(o, ps) ==
    /\ Abs(o.spread_8h) >= cfg.min_spread
    /\ Len(ps) < cfg.max_positions
    /\ o.coin \notin PositionCoins(ps)

CVCall ==
    /\ prog = "cv"
    /\ UNCHANGED <<an_vars, agg_vars, io_vars>>
    /\ pc = "call"
    /\ pc' = "loop"
    /\ equity' = cfg.capital
    /\ positions' = <<>>
    /\ trades' = <<>>
    /\ equity_curve' = <<<<IF total > 0 THEN 0 ELSE Now, cfg.capital>>>>
    /\ UNCHANGED <<prog, feed, total, cfg, n, first_ts, opp, new_positions,
                   opened, entry_log, result, ss_vars>>

\* variant: the open check runs on the list as it was before the close phase
CVStep_OpenBeforeClose(o, ps, eq, trs) ==
    LET c == CVClose(ps, 1, o.timestamp, eq, <<>>, trs)
        open == CVOpenCondition(o, ps)
        entry_costs == IF open THEN CVEntryCosts(c.equity) ELSE 0
    IN [new_positions |-> c.new_positions,
        trades |-> c.trades,
        open |-> open,
        entry_costs |-> entry_costs,
        equity |-> c.equity - entry_costs,
        positions |->
            IF open
            THEN Append(c.new_positions,
                        [coin |-> o.coin, entry_time |-> o.timestamp,
                         entry_spread |-> o.spread_8h, direction |-> o.direction])
            ELSE c.new_positions]

\* one iteration of the for loop: close phase, then open check, on event o
CVStep(o, ps, eq, trs) ==
    LET c == CVClose(ps, 1, o.timestamp, eq, <<>>, trs)
        open == CVOpenCondition(o, c.new_positions)
        entry_costs == IF open THEN CVEntryCosts(c.equity) ELSE 0
    IN [new_positions |-> c.new_positions,
        trades |-> c.trades,
        open |-> open,
        entry_costs |-> entry_costs,
        equity |-> c.equity - entry_costs,
        positions |->
            IF open
            THEN Append(c.new_positions,
                        [coin |-> o.coin, entry_time |-> o.timestamp,
                         entry_spread |-> o.spread_8h, direction |-> o.direction])
            ELSE c.new_positions]

CVEvent ==
    /\ prog = "cv"
    /\ UNCHANGED <<an_vars, agg_vars, io_vars>>
    /\ pc = "loop"
    /\ n < total
    /\ \E o \in CVEvents(feed, opp, n) :
         LET r == CVStep(o, positions, equity, trades)
         IN /\ opp' = o
            /\ new_positions' = r.new_positions
            /\ trades' = r.trades
            /\ equity' = r.equity
            /\ positions' = r.positions
            /\ opened' = IF r.open THEN opened + 1 ELSE opened
            /\ entry_log' = IF r.open
                            THEN Append(entry_log, [coin |-> o.coin,
                                                    entry_time |-> o.timestamp,
                                                    cost |-> r.entry_costs])
                            ELSE entry_log
            /\ equity_curve' = Append(equity_curve, <<o.timestamp, r.equity>>)
    /\ n' = n + 1
    /\ first_ts' = IF n = 0 THEN opp'.timestamp ELSE first_ts
    /\ UNCHANGED <<prog, feed, total, cfg, pc, result, ss_vars>>

CVReturn ==
    /\ prog = "cv"
    /\ UNCHANGED <<an_vars, agg_vars, io_vars>>
    /\ pc = "loop"
    /\ n = total
    /\ IF cfg.capital = 0
       THEN /\ pc' = "fault"          \* equity / capital: ZeroDivisionError
            /\ UNCHANGED result
       ELSE LET total_return_pct == ((equity - cfg.capital) * 10000) \div cfg.capital
                days == IF total > 0 THEN Days(opp.timestamp - first_ts) ELSE 0
                annual_return == IF total > 0 /\ days > 0
                                 THEN (total_return_pct * 365) \div days
                                 ELSE 0
            IN /\ pc' = "returned"
               /\ result' = [initial_capital |-> cfg.capital,
                             final_equity |-> equity,
                             total_pnl |-> equity - cfg.capital,
                             total_return_pct |-> total_return_pct,
                             annualized_return_pct |-> annual_return,
                             total_trades |-> Len(trades),
                             winning_trades |-> Cardinality({i \in 1..Len(trades) : trades[i].net > 0}),
                             equity_curve |-> LastN(equity_curve, 100)]
    /\ UNCHANGED <<prog, feed, total, cfg, n, first_ts, opp, equity, positions,
                   new_positions, trades, equity_curve, opened, entry_log, ss_vars>>

----------------------------------------------------------------------------
(* scripts/analyze_hl_spot_hedge.py: simulate_trading *)

\* variant: hold_periods is not applied
HLGross_OnePeriod(pos) ==
    Frac(pos.expected_yield, cfg.position_pct, cfg.capital)

HLGross(pos) ==
    Frac(pos.expected_yield * cfg.hold_periods, cfg.position_pct, cfg.capital)

HLCosts == Frac(cfg.entry_cost + cfg.exit_cost, cfg.position_pct, cfg.capital)

\* the close loop over positions, in list order
RECURSIVE HLClose(_, _, _, _, _, _)
HLClose(ps, i, ts, eq, keep, trs) ==
    IF i > Len(ps) THEN [equity |-> eq, new_positions |-> keep, trades |-> trs]
    ELSE IF Matured(ps[i], ts, cfg.hold_periods)
         THEN LET gross == HLGross(ps[i])
                  costs == HLCosts
                  net == gross - costs
              IN HLClose(ps, i + 1, ts, eq + net, keep,
                         Append(trs, [coin |-> ps[i].coin, entry |-> ps[i].entry_time,
                                      exit |-> ts, direction |-> ps[i].direction,
                                      gross |-> gross, net |-> net]))
         ELSE HLClose(ps, i + 1, ts, eq, Append(keep, ps[i]), trs)

\* variant: the coin test is missing
HLOpenCondition_NoCoinCheck(o, ps) ==
    /\ o.net_yield_8h >= cfg.min_net_yield
    /\ Len(ps) < cfg.max_positions

HLOpenCondition(o, ps) ==
    /\ o.net_yield_8h >= cfg.min_net_yield
    /\ Len(ps) < cfg.max_positions
    /\ o.coin \notin PositionCoins(ps)

RECURSIVE SumNet(_, _)
SumNet(trs, i) == IF i > Len(trs) THEN 0 ELSE trs[i].net + SumNet(trs, i + 1)

Max(a, b) == IF a >= b THEN a ELSE b

HLCall ==
    /\ prog = "hl"
    /\ UNCHANGED <<an_vars, agg_vars, io_vars>>
    /\ pc = "call"
    /\ pc' = "loop"
    /\ equity' = cfg.capital
    /\ positions' = <<>>
    /\ trades' = <<>>
    /\ UNCHANGED <<prog, feed, total, cfg, n, first_ts, opp, new_positions,
                   equity_curve, opened, entry_log, result, ss_vars>>

\* one iteration of the for loop: close phase, then open check, on event o
HLStep(o, ps, eq, trs) ==
    LET c == HLClose(ps, 1, o.timestamp, eq, <<>>, trs)
        open == HLOpenCondition(o, c.new_positions)
    IN [new_positions |-> c.new_positions,
        trades |-> c.trades,
        open |-> open,
        equity |-> c.equity,
        positions |->
            IF open
            THEN Append(c.new_positions,
                        [coin |-> o.coin, entry_time |-> o.timestamp,
                         expected_yield |-> o.net_yield_8h, direction |-> o.direction])
            ELSE c.new_positions]

HLEvent ==
    /\ prog = "hl"
    /\ UNCHANGED <<an_vars, agg_vars, io_vars>>
    /\ pc = "loop"
    /\ n < total
    /\ \E o \in HLEvents(feed, opp, n) :
         LET r == HLStep(o, positions, equity, trades)
         IN /\ opp' = o
            /\ new_positions' = r.new_positions
            /\ trades' = r.trades
            /\ equity' = r.equity
            /\ positions' = r.positions
            /\ opened' = IF r.open THEN opened + 1 ELSE opened
            /\ entry_log' = IF r.open
                            THEN Append(entry_log, [coin |-> o.coin,
                                                    entry_time |-> o.timestamp,
                                                    cost |-> 0])
                            ELSE entry_log
    /\ n' = n + 1
    /\ first_ts' = IF n = 0 THEN opp'.timestamp ELSE first_ts
    /\ UNCHANGED <<prog, feed, total, cfg, pc, equity_curve, result, ss_vars>>

HLReturn ==
    /\ prog = "hl"
    /\ UNCHANGED <<an_vars, agg_vars, io_vars>>
    /\ pc = "loop"
    /\ n = total
    /\ IF cfg.capital = 0
       THEN /\ pc' = "fault"          \* equity / capital: ZeroDivisionError
            /\ UNCHANGED result
       ELSE LET total_return == ((equity - cfg.capital) * 10000) \div cfg.capital
                days == IF total > 0 THEN Days(opp.timestamp - first_ts) ELSE 0
                annual_return == IF days > 0
                                 THEN (total_return * 365) \div Max(1, days)
                                 ELSE 0
            IN /\ pc' = "returned"
               /\ result' = [initial_capital |-> cfg.capital,
                             final_equity |-> equity,
                             total_pnl |-> equity - cfg.capital,
                             total_return_pct |-> total_return,
                             annualized_return_pct |-> annual_return,
                             total_trades |-> Len(trades),
                             winning_trades |-> Cardinality({i \in 1..Len(trades) : trades[i].net > 0}),
                             avg_trade_pnl |-> SumNet(trades, 1) \div Max(1, Len(trades))]
    /\ UNCHANGED <<prog, feed, total, cfg, n, first_ts, opp, equity, positions,
                   new_positions, trades, equity_curve, opened, entry_log, ss_vars>>

----------------------------------------------------------------------------
(* scripts/analyze_funding_profitability.py: simulate_strategy *)

MIN_FUNDING_RATE == 10      \* 0.001

MIN_VOLUME_24H == 100       \* 100_000_000, in millions

ENTRY_COST == 30            \* (0.0004 + 0.001 + 0.0001) * 2

EXIT_COST == ENTRY_COST

MAX_POSITIONS == 3

POSITION_SIZE == 30         \* 0.30

\* rate values of FundingEvent: at and above MIN_FUNDING_RATE, exactly 0.3 times
\* MIN_FUNDING_RATE (0.0003) and just below it
SSRates(f) == IF f = "mixed" THEN {-20, 2, 3, 20} ELSE {-20, 12, 20}

\* volume_24h values of FundingEvent, in millions
SSVolumes(f) == IF f = "mixed" THEN {50, 200} ELSE {200}

\* the events of one timestamp as a list, in the producer's symbol order
RECURSIVE GroupSeq(_, _, _)
GroupSeq(S, g, ts) ==
    IF S = {} THEN <<>>
    ELSE LET c == CHOOSE x \in S : \A y \in S : CoinIdx(x) <= CoinIdx(y)
         IN <<[timestamp |-> ts, symbol |-> c, rate |-> g[c][1], volume_24h |-> g[c][2]]>>
            \o GroupSeq(S \ {c}, g, ts)

\* events_by_time[ts] for the next timestamp of the sorted list
SSGroups(f, ts, left) ==
    UNION {{GroupSeq(S, g, ts) : g \in [S -> SSRates(f) \X SSVolumes(f)]} :
             S \in {T \in SUBSET FeedCoins(f) :
                      /\ T # {}
                      /\ IF f = "burst" THEN Cardinality(T) = left
                         ELSE Cardinality(T) <= left}}

\* next((e for e in period_events if e.symbol == symbol), None)
HasEvent(evs, symbol) == \E i \in 1..Len(evs) : evs[i].symbol = symbol

SymEvent(evs, symbol) ==
    evs[CHOOSE i \in 1..Len(evs) :
          /\ evs[i].symbol = symbol
          /\ \A j \in 1..(i - 1) : evs[j].symbol # symbol]

\* "long_spot" in pos.direction
WasPositive(pos) == pos.direction = "long_spot_short_perp"

StillAligned(pos, ev) == (ev.rate > 0) = WasPositive(pos)

\* variant: a rate of exactly 0.3 * MIN_FUNDING_RATE closes too
RateDropped_Inclusive(ev) == Abs(ev.rate) * 10 <= MIN_FUNDING_RATE * 3

\* abs_rate < MIN_FUNDING_RATE * 0.3
RateDropped(ev) == Abs(ev.rate) * 10 < MIN_FUNDING_RATE * 3

\* symbols_to_close after the loop over positions.items()
SymbolsToClose(ps, evs) ==
    {sym \in DOMAIN ps :
        /\ HasEvent(evs, sym)
        /\ LET ev == SymEvent(evs, sym)
           IN \/ ~StillAligned(ps[sym], ev)
              \/ RateDropped(ev)}

\* symbols whose position collects funding in this period
SymbolsCollecting(ps, evs) ==
    {sym \in DOMAIN ps :
        /\ HasEvent(evs, sym)
        /\ StillAligned(ps[sym], SymEvent(evs, sym))}

RECURSIVE SumOver(_, _)
SumOver(S, f) ==
    IF S = {} THEN 0
    ELSE LET x == CHOOSE y \in S : TRUE IN f[x] + SumOver(S \ {x}, f)

\* positions after the collect loop (funding_collected, periods_held updated)
Collected(ps, evs) ==
    [sym \in DOMAIN ps |->
        IF sym \in SymbolsCollecting(ps, evs)
        THEN [ps[sym] EXCEPT
                !.funding_collected = @ + Abs(SymEvent(evs, sym).rate),
                !.periods_held = @ + 1]
        ELSE ps[sym]]

\* variant: a symbol that is already open qualifies again
Qualifies_AnySymbol(ev, ps) ==
    /\ Abs(ev.rate) >= MIN_FUNDING_RATE
    /\ ev.volume_24h >= MIN_VOLUME_24H

\* the filter that builds opportunities, in period_events order
Qualifies(ev, ps) ==
    /\ ev.symbol \notin DOMAIN ps
    /\ Abs(ev.rate) >= MIN_FUNDING_RATE
    /\ ev.volume_24h >= MIN_VOLUME_24H

Opportunities(evs, ps) == SelectSeq(evs, LAMBDA ev : Qualifies(ev, ps))

\* variant: the opportunities are taken in period_events order
SortByRate_Unsorted(evs) == evs

\* opportunities.sort(key=lambda e: abs(e.rate), reverse=True): stable
RECURSIVE SortByRate(_)
SortByRate(evs) ==
    IF evs = <<>> THEN <<>>
    ELSE LET i == CHOOSE k \in 1..Len(evs) :
                    /\ \A j \in 1..Len(evs) : Abs(evs[j].rate) <= Abs(evs[k].rate)
                    /\ \A j \in 1..(k - 1) : Abs(evs[j].rate) < Abs(evs[k].rate)
         IN <<evs[i]>> \o SortByRate(SubSeq(evs, 1, i - 1) \o SubSeq(evs, i + 1, Len(evs)))

NewPosition(ev, ts) ==
    [symbol |-> ev.symbol, entry_time |-> ts, entry_rate |-> ev.rate,
     size |-> POSITION_SIZE,
     direction |-> IF ev.rate > 0 THEN "long_spot_short_perp" ELSE "short_spot_long_perp",
     funding_collected |-> Abs(ev.rate), periods_held |-> 1]

\* the open loop over the sorted opportunities
RECURSIVE SSOpen(_, _, _, _, _)
SSOpen(opps, i, ts, ps, tot) ==
    IF i > Len(opps) \/ Cardinality(DOMAIN ps) >= MAX_POSITIONS
    THEN [positions |-> ps, totals |-> tot]
    ELSE LET ev == opps[i]
             sym == ev.symbol
         IN SSOpen(opps, i + 1, ts,
                   [s \in (DOMAIN ps) \cup {sym} |->
                       IF s = sym THEN NewPosition(ev, ts) ELSE ps[s]],
                   [tot EXCEPT
                      !.total_funding_usd =
                          @ + Frac(Abs(ev.rate), POSITION_SIZE, cfg.capital),
                      !.funding_events_captured = @ + 1,
                      !.total_entry_costs_usd =
                          @ + Frac(ENTRY_COST, POSITION_SIZE, cfg.capital),
                      !.positions_opened = @ + 1])

SSCall ==
    /\ prog = "ss"
    /\ UNCHANGED <<an_vars, agg_vars, io_vars>>
    /\ pc = "call"
    /\ IF total = 0
       THEN /\ pc' = "returned"
            /\ result' = [error |-> "No events"]
       ELSE /\ pc' = "loop"
            /\ UNCHANGED result
    /\ UNCHANGED <<prog, feed, total, cfg, n, first_ts, opp, opened, sim_vars, ss_vars>>

SSPeriod ==
    /\ prog = "ss"
    /\ UNCHANGED <<an_vars, agg_vars, io_vars>>
    /\ pc = "loop"
    /\ n < total
    /\ \E ts \in (IF n = 0 THEN {0} ELSE {opp.timestamp + g : g \in FeedGaps("ss", feed)}) :
       \E evs \in SSGroups(feed, ts, total - n) :
         LET closing == SymbolsToClose(ss_positions, evs)
             collecting == SymbolsCollecting(ss_positions, evs)
             collected == Collected(ss_positions, evs)
             t1 == [ss_totals EXCEPT
                      !.total_funding_usd = @ + SumOver(collecting,
                          [sym \in collecting |->
                              Frac(Abs(SymEvent(evs, sym).rate), ss_positions[sym].size,
                                   cfg.capital)]),
                      !.funding_events_captured = @ + Cardinality(collecting),
                      !.total_exit_costs_usd = @ + SumOver(closing,
                          [sym \in closing |->
                              Frac(EXIT_COST, ss_positions[sym].size, cfg.capital)])]
             kept == [sym \in (DOMAIN collected) \ closing |-> collected[sym]]
             o == IF Cardinality(DOMAIN kept) < MAX_POSITIONS
                  THEN SSOpen(SortByRate(Opportunities(evs, kept)), 1, ts, kept, t1)
                  ELSE [positions |-> kept, totals |-> t1]
         IN /\ period_events' = evs
            /\ ss_positions' = o.positions
            /\ ss_totals' = o.totals
            /\ opp' = [timestamp |-> ts, coin |-> Last(evs).symbol]
            /\ n' = n + Len(evs)
            /\ opened' = o.totals.positions_opened
    /\ first_ts' = IF n = 0 THEN opp'.timestamp ELSE first_ts
    /\ UNCHANGED <<prog, feed, total, cfg, pc, result, sim_vars>>

SSReturn ==
    /\ prog = "ss"
    /\ UNCHANGED <<an_vars, agg_vars, io_vars>>
    /\ pc = "loop"
    /\ n = total
    /\ LET total_exit == ss_totals.total_exit_costs_usd
                         + SumOver(DOMAIN ss_positions,
                               [sym \in DOMAIN ss_positions |->
                                   Frac(EXIT_COST, ss_positions[sym].size, cfg.capital)])
           total_costs_usd == ss_totals.total_entry_costs_usd + total_exit
           net_profit_usd == ss_totals.total_funding_usd - total_costs_usd
           days == Max(Days(opp.timestamp - first_ts), 1)
       IN /\ ss_totals' = [ss_totals EXCEPT !.total_exit_costs_usd = total_exit]
          /\ IF cfg.capital = 0
             THEN /\ pc' = "fault"    \* total_funding_usd / capital: ZeroDivisionError
                  /\ UNCHANGED result
             ELSE LET gross_return == (ss_totals.total_funding_usd * 10000) \div cfg.capital
                      net_return == (net_profit_usd * 10000) \div cfg.capital
                  IN /\ pc' = "returned"
                     /\ result' =
                          [days |-> days,
                           capital |-> cfg.capital,
                           total_funding_usd |-> ss_totals.total_funding_usd,
                           total_costs_usd |-> total_costs_usd,
                           net_profit_usd |-> net_profit_usd,
                           positions_opened |-> ss_totals.positions_opened,
                           funding_events |-> ss_totals.funding_events_captured,
                           gross_return_pct |-> gross_return,
                           net_return_pct |-> net_return,
                           gross_apy |-> (gross_return * 365) \div days,
                           net_apy |-> (net_return * 365) \div days,
                           cost_ratio |-> IF ss_totals.total_funding_usd > 0
                                          THEN (total_costs_usd * 10000)
                                               \div ss_totals.total_funding_usd
                                          ELSE 0]
    /\ UNCHANGED <<prog, feed, total, cfg, n, first_ts, opp, opened, sim_vars,
                   ss_positions, period_events>>

----------------------------------------------------------------------------

Init ==
    /\ prog \in {"cv", "hl", "ss"}
    /\ feed \in Feeds(prog)
    /\ total \in FeedLens(feed)
    /\ cfg \in Configs(prog, feed)
    /\ pc = "call"
    /\ n = 0
    /\ first_ts = 0
    /\ opp = NoOpp
    /\ equity = 0
    /\ positions = <<>>
    /\ new_positions = <<>>
    /\ trades = <<>>
    /\ equity_curve = <<>>
    /\ opened = 0
    /\ entry_log = <<>>
    /\ result = [none |-> TRUE]
    /\ ss_positions = <<>>
    /\ period_events = <<>>
    /\ ss_totals = [total_funding_usd |-> 0, total_entry_costs_usd |-> 0,
                    total_exit_costs_usd |-> 0, positions_opened |-> 0,
                    funding_events_captured |-> 0]
    /\ hl_data = <<>>
    /\ binance_data = <<>>
    /\ coins_todo = {}
    /\ coin = "none"
    /\ idx = 0
    /\ spreads = <<>>
    /\ aligned = <<>>
    /\ periods = <<>>
    /\ opportunities = <<>>
    /\ stats = [total_periods |-> 0]
    /\ AggIdle
    /\ IOIdle

Next ==
    \/ CVCall
    \/ CVEvent
    \/ CVReturn
    \/ HLCall
    \/ HLEvent
    \/ HLReturn
    \/ SSCall
    \/ SSPeriod
    \/ SSReturn

Spec == Init /\ [][Next]_vars

----------------------------------------------------------------------------
(* scripts/analyze_cross_venue.py: align_and_calculate_spreads              *)
(*                                                                          *)
(* Timestamps of funding records are in quarter hours after a midnight UTC; *)
(* a record is the tuple (timestamp, rate) that collect_funding_data builds. *)

\* longest binance_data[coin] list of the inputs
MaxBinance == 2

\* number of off-the-hour HL records of the inputs
MaxExtra == 2

\* timedelta(hours=1), in quarter hours
Hour == 4

SeqsUpTo(S, k) == UNION {[1..m -> S] : m \in 0..k}

Reverse(s) == [i \in 1..Len(s) |-> s[Len(s) + 1 - i]]

\* HL records on the hour for the hours in H, ascending, each of rate r
RECURSIVE Hourly(_, _)
Hourly(H, r) ==
    IF H = {} THEN <<>>
    ELSE LET h == CHOOSE x \in H : \A y \in H : x <= y
         IN <<<<h * Hour, r>>>> \o Hourly(H \ {h}, r)

\* Binance settlements at 08:00, 12:00 (a 4-hour funding interval) and 16:00
BinanceRecords(hours) == {<<h * Hour, r>> : h \in hours, r \in {5, 7}}

\* HL records up to 45 minutes before and 30 minutes after the 08:00 settlement
ExtraHLRecords == {<<t, r>> : t \in 29..34, r \in {3, 7}}

\* one coin, any subset of the 8 hourly records before 08:00 present
CoverageInputs ==
    {[hl_data |-> [c \in {AllCoins[1]} |-> Hourly(P, 1)],
      binance_data |-> [c \in {AllCoins[1]} |-> b]] :
        P \in SUBSET (1..8), b \in SeqsUpTo(BinanceRecords({8, 12}), MaxBinance)}

\* one coin, records off the hour, in list order or reversed
ToleranceInputs ==
    {[hl_data |-> [c \in {AllCoins[1]} |->
                      IF rev THEN Reverse(Hourly(1..4, 1) \o x)
                      ELSE Hourly(1..4, 1) \o x],
      binance_data |-> [c \in {AllCoins[1]} |-> <<b>>]] :
        x \in SeqsUpTo(ExtraHLRecords, MaxExtra), rev \in BOOLEAN,
        b \in BinanceRecords({8})}

\* two coins, each on either venue, on both or on none; full hourly HL data
CoinInputs ==
    {[hl_data |-> [c \in H |-> Hourly(1..16, CoinIdx(c))],
      binance_data |-> b] :
        H \in SUBSET {AllCoins[1], AllCoins[2]},
        b \in UNION {[B -> SeqsUpTo({<<h * Hour, 5>> : h \in {8, 12, 16}}, MaxBinance)] :
                        B \in SUBSET {AllCoins[1], AllCoins[2]}}}

AlignInputs == CoverageInputs \cup ToleranceInputs \cup CoinInputs

\* variant: a record exactly 30 minutes away matches
WithinTolerance_Inclusive(hl_ts, check_time) ==
    Abs(hl_ts - check_time) * 900 <= 1800

\* abs((hl_ts - check_time).total_seconds()) < 1800
WithinTolerance(hl_ts, check_time) ==
    Abs(hl_ts - check_time) * 900 < 1800

\* for hl_ts, hl_rate in hl_records: if ...: ... break
\* index of the first record in list order within tolerance, 0 if there is none
FirstMatch(hl_records, check_time) ==
    LET hits == {i \in 1..Len(hl_records) :
                    WithinTolerance(hl_records[i][1], check_time)}
    IN IF hits = {} THEN 0 ELSE CHOOSE i \in hits : \A j \in hits : i <= j

\* variant: the rates are averaged
Accumulate_Average(acc, hours_back, i, hl_rate) ==
    [hl_8h_equivalent |->
        (acc.hl_8h_equivalent * acc.hl_count + hl_rate) \div (acc.hl_count + 1),
     hl_count |-> acc.hl_count + 1,
     matched |-> Append(acc.matched, <<hours_back, i>>)]

\* hl_8h_equivalent += hl_rate; hl_count += 1
\* (matched is history: the sub-timestamp and the index of the record consumed)
Accumulate(acc, hours_back, i, hl_rate) ==
    [hl_8h_equivalent |-> acc.hl_8h_equivalent + hl_rate,
     hl_count |-> acc.hl_count + 1,
     matched |-> Append(acc.matched, <<hours_back, i>>)]

\* for hours_back in range(8)
RECURSIVE MatchLoop(_, _, _, _)
MatchLoop(hl_records, binance_ts, hours_back, acc) ==
    IF hours_back > 7 THEN acc
    ELSE LET check_time == binance_ts - hours_back * Hour
             i == FirstMatch(hl_records, check_time)
         IN MatchLoop(hl_records, binance_ts, hours_back + 1,
                      IF i = 0 THEN acc
                      ELSE Accumulate(acc, hours_back, i, hl_records[i][2]))

\* variant: three records are enough
HasCoverage_Three(hl_count) == ~(hl_count < 3)

\* if hl_count < 4: continue
HasCoverage(hl_count) == ~(hl_count < 4)

SpreadOpportunity(c, binance_ts, hl_8h_equivalent, binance_rate) ==
    [timestamp |-> binance_ts,
     coin |-> c,
     hl_rate_8h |-> hl_8h_equivalent,
     binance_rate_8h |-> binance_rate,
     spread_8h |-> hl_8h_equivalent - binance_rate,
     direction |-> Direction(hl_8h_equivalent - binance_rate)]

\* variant: the list is returned in the order it was built
SortByTimestamp_Unsorted(s) == s

\* sorted(spreads, key=lambda x: x.timestamp): stable
RECURSIVE SortByTimestamp(_)
SortByTimestamp(s) ==
    IF s = <<>> THEN <<>>
    ELSE LET i == CHOOSE k \in 1..Len(s) :
                    /\ \A j \in 1..Len(s) : s[k].timestamp <= s[j].timestamp
                    /\ \A j \in 1..(k - 1) : s[k].timestamp < s[j].timestamp
         IN <<s[i]>> \o SortByTimestamp(SubSeq(s, 1, i - 1) \o SubSeq(s, i + 1, Len(s)))

\* variant: every coin of hl_data is visited
AlignCoins_HLKeys(hl, bin) == DOMAIN hl

\* set(hl_data.keys()) & set(binance_data.keys())
AlignCoins(hl, bin) == DOMAIN hl \cap DOMAIN bin

\* the inner loop over the records / periods of coin is exhausted
CoinDone(len) == coin = "none" \/ idx = len

AlignCall ==
    /\ prog = "align"
    /\ pc = "call"
    /\ pc' = "loop"
    /\ spreads' = <<>>
    /\ coins_todo' = AlignCoins(hl_data, binance_data)
    /\ UNCHANGED <<prog, result, run_vars, agg_vars, io_vars,
                   hl_data, binance_data, coin, idx,
                   aligned, periods, opportunities, stats>>

\* for coin in ...: the set is iterated in an order the caller does not control;
\* hl_data[coin] and binance_data[coin] raise KeyError for a missing key
AlignNextCoin ==
    /\ prog = "align"
    /\ pc = "loop"
    /\ coins_todo # {}
    /\ CoinDone(IF coin = "none" THEN 0 ELSE Len(binance_data[coin]))
    /\ \E c \in coins_todo :
         IF c \in DOMAIN hl_data /\ c \in DOMAIN binance_data
         THEN /\ coin' = c
              /\ idx' = 0
              /\ coins_todo' = coins_todo \ {c}
              /\ pc' = pc
         ELSE /\ pc' = "fault"
              /\ UNCHANGED <<coin, idx, coins_todo>>
    /\ UNCHANGED <<prog, result, run_vars, agg_vars, io_vars,
                   hl_data, binance_data, spreads,
                   aligned, periods, opportunities, stats>>

\* for binance_ts, binance_rate in binance_records: one iteration
AlignPeriod ==
    /\ prog = "align"
    /\ pc = "loop"
    /\ coin # "none"
    /\ idx < Len(binance_data[coin])
    /\ LET binance_ts == binance_data[coin][idx + 1][1]
           binance_rate == binance_data[coin][idx + 1][2]
           acc == MatchLoop(hl_data[coin], binance_ts, 0,
                            [hl_8h_equivalent |-> 0, hl_count |-> 0, matched |-> <<>>])
       IN /\ idx' = idx + 1
          /\ spreads' = IF HasCoverage(acc.hl_count)
                        THEN Append(spreads,
                                 SpreadOpportunity(coin, binance_ts,
                                                   acc.hl_8h_equivalent, binance_rate))
                        ELSE spreads
          /\ aligned' = Append(aligned,
                               [coin |-> coin, binance_ts |-> binance_ts,
                                binance_rate |-> binance_rate,
                                hl_count |-> acc.hl_count,
                                hl_8h_equivalent |-> acc.hl_8h_equivalent,
                                matched |-> acc.matched,
                                emitted |-> Len(spreads') > Len(spreads)])
    /\ UNCHANGED <<prog, pc, result, run_vars, agg_vars, io_vars,
                   hl_data, binance_data, coins_todo,
                   coin, periods, opportunities, stats>>

AlignReturn ==
    /\ prog = "align"
    /\ pc = "loop"
    /\ coins_todo = {}
    /\ CoinDone(IF coin = "none" THEN 0 ELSE Len(binance_data[coin]))
    /\ pc' = "returned"
    /\ result' = SortByTimestamp(spreads)
    /\ UNCHANGED <<prog, run_vars, agg_vars, io_vars, an_vars>>

\* the simulators' variables while an aligner or aggregator runs
RunIdle ==
    /\ feed = "none"
    /\ total = 0
    /\ cfg = [capital |-> 0]
    /\ n = 0
    /\ first_ts = 0
    /\ opp = NoOpp
    /\ equity = 0
    /\ positions = <<>>
    /\ new_positions = <<>>
    /\ trades = <<>>
    /\ equity_curve = <<>>
    /\ opened = 0
    /\ entry_log = <<>>
    /\ ss_positions = <<>>
    /\ period_events = <<>>
    /\ ss_totals = [total_funding_usd |-> 0]

AlignInit ==
    /\ prog = "align"
    /\ pc = "call"
    /\ result = [none |-> TRUE]
    /\ RunIdle
    /\ \E input \in AlignInputs :
         /\ hl_data = input.hl_data
         /\ binance_data = input.binance_data
    /\ coins_todo = {}
    /\ coin = "none"
    /\ idx = 0
    /\ spreads = <<>>
    /\ aligned = <<>>
    /\ periods = <<>>
    /\ opportunities = <<>>
    /\ stats = [total_periods |-> 0]
    /\ AggIdle
    /\ IOIdle

----------------------------------------------------------------------------
(* scripts/analyze_hl_spot_hedge.py: analyze_strategy                       *)
(*                                                                          *)
(* Timestamps are in quarter hours after the midnight UTC that begins the   *)
(* last day of a month; rates and yields are integers in units of 0.000001  *)
(* (0.0005 is 500); a quotient is truncated to that unit.                   *)

\* largest number of records of one 8-hour bucket in the inputs
MaxBucket == 5

\* MARGIN_BORROW_RATES, in percent per year
MarginBorrowRate(c) ==
    IF c \in {"BTC", "ETH"} THEN 5 ELSE IF c = "USDT" THEN 10 ELSE 8

\* get_borrow_cost_8h: annual_rate * (8 / 24 / 365)
BorrowCost8h(c, direction) ==
    IF direction = "short_hl" THEN 0
    ELSE (MarginBorrowRate(c) * 10000 * 8) \div (24 * 365)

\* the keyword defaults of analyze_strategy
StrategyConfig == [min_funding_8h |-> 500, entry_cost |-> 1000, exit_cost |-> 1000]

\* variant: the bucket keeps the time of day only
PeriodTime_TimeOfDay(ts) == ((((ts \div Hour) % 24) \div 8) * 8) * Hour

\* rec.timestamp.replace(hour=(hour // 8) * 8, minute=0, second=0, microsecond=0)
PeriodTime(ts) ==
    LET day == ts \div (24 * Hour)
        hour == (ts \div Hour) % 24
    IN day * 24 * Hour + ((hour \div 8) * 8) * Hour

\* period_time.strftime('%Y-%m'): the month of day 0 and the month after it
MonthKey(period_time) ==
    IF period_time < 24 * Hour THEN "month0" ELSE "month1"

\* k records of rate r, one per hour from hour h0 on, q quarters past the hour
HourlyRecords(c, h0, q, k, r) ==
    [i \in 1..k |-> [timestamp |-> (h0 + i - 1) * Hour + q, coin |-> c,
                     funding_rate |-> r]]

\* first hour and quarter of the records of day 0: 16:15 on, 16:00 on (the
\* first record on the bucket boundary) and 19:45 on (up to 23:45)
StrategyStarts == {<<16, 1>>, <<16, 0>>, <<19, 3>>}

\* one coin with up to MaxBucket records in the 16:00 bucket of day 0 and 0, 3
\* or 4 in the 00:00 bucket of day 1, in time order or reversed; a second coin
\* with 4 records may be present too
StrategyInputs ==
    {[c \in {AllCoins[1]} \cup extra |->
        IF c = AllCoins[1]
        THEN LET recs == HourlyRecords(c, at[1], at[2], ka, r)
                         \o HourlyRecords(c, 24, at[2], kb, r)
             IN IF rev THEN Reverse(recs) ELSE recs
        ELSE HourlyRecords(c, 16, 1, 4, -600)] :
        ka \in 0..MaxBucket, kb \in {0, 3, 4}, r \in {-600, 0, 100, 600},
        rev \in BOOLEAN, extra \in {{}, {AllCoins[3]}}, at \in StrategyStarts}

\* periods[period_time].append(rec.funding_rate), for rec in records from i on;
\* the dict keeps its keys in insertion order
RECURSIVE GroupPeriods(_, _, _)
GroupPeriods(records, i, ps) ==
    IF i > Len(records) THEN ps
    ELSE LET pt == PeriodTime(records[i].timestamp)
             at == {k \in 1..Len(ps) : ps[k].period_time = pt}
         IN GroupPeriods(records, i + 1,
               IF at = {}
               THEN Append(ps, [period_time |-> pt,
                                hourly_rates |-> <<records[i].funding_rate>>])
               ELSE LET k == CHOOSE x \in at : TRUE
                    IN [ps EXCEPT ![k].hourly_rates =
                                      Append(@, records[i].funding_rate)])

RECURSIVE SumSeq(_, _)
SumSeq(s, i) == IF i > Len(s) THEN 0 ELSE s[i] + SumSeq(s, i + 1)

\* truncating quotient (the code divides floats)
Quot(a, b) == IF a >= 0 THEN a \div b ELSE -((-a) \div b)

\* variant: three records are enough
EnoughHours_Three(hourly_rates) == ~(Len(hourly_rates) < 3)

\* if len(hourly_rates) < 4: continue
EnoughHours(hourly_rates) == ~(Len(hourly_rates) < 4)

\* defaultdict lookup followed by the += updates of one period
Bump(d, key, zero, upd) ==
    LET old == IF key \in DOMAIN d THEN d[key] ELSE zero
    IN [k \in DOMAIN d \cup {key} |-> IF k = key THEN upd[old] ELSE d[k]]

StatsZero ==
    [total_periods |-> 0, positive_funding_periods |-> 0,
     negative_funding_periods |-> 0, tradeable_periods |-> 0,
     profitable_periods |-> 0, total_gross_yield |-> 0,
     total_borrow_cost |-> 0, total_net_yield |-> 0,
     by_coin |-> <<>>, by_month |-> <<>>]

ByCoinZero ==
    [periods |-> 0, gross |-> 0, borrow |-> 0, net |-> 0,
     positive_count |-> 0, negative_count |-> 0]

ByMonthZero == [periods |-> 0, gross |-> 0, net |-> 0]

\* the body of the loop over periods.items() for a period that is kept
StrategyStep(c, period_time, hourly_rates, st) ==
    LET funding_8h == SumSeq(hourly_rates, 1)
        avg_hourly == Quot(funding_8h, Len(hourly_rates))
        direction == IF funding_8h > 0 THEN "short_hl" ELSE "long_hl"
        abs_funding == Abs(funding_8h)
        borrow_cost == BorrowCost8h(c, direction)
        net_yield == abs_funding - borrow_cost
        tradeable == abs_funding >= StrategyConfig.min_funding_8h
        profitable == net_yield > StrategyConfig.entry_cost + StrategyConfig.exit_cost
        by_coin == Bump(st.by_coin, c, ByCoinZero,
                        [old \in {IF c \in DOMAIN st.by_coin THEN st.by_coin[c]
                                  ELSE ByCoinZero} |->
                           [periods |-> old.periods + 1,
                            gross |-> old.gross + abs_funding,
                            borrow |-> old.borrow + borrow_cost,
                            net |-> old.net + Max(0, net_yield),
                            positive_count |-> old.positive_count
                                                + (IF funding_8h > 0 THEN 1 ELSE 0),
                            negative_count |-> old.negative_count
                                                + (IF funding_8h > 0 THEN 0 ELSE 1)]])
        month_key == MonthKey(period_time)
        by_month == Bump(st.by_month, month_key, ByMonthZero,
                         [old \in {IF month_key \in DOMAIN st.by_month
                                   THEN st.by_month[month_key] ELSE ByMonthZero} |->
                            [periods |-> old.periods + 1,
                             gross |-> old.gross + abs_funding,
                             net |-> old.net + Max(0, net_yield)]])
    IN [stats |->
          [total_periods |-> st.total_periods + 1,
           positive_funding_periods |->
               st.positive_funding_periods + (IF funding_8h > 0 THEN 1 ELSE 0),
           negative_funding_periods |->
               st.negative_funding_periods + (IF funding_8h > 0 THEN 0 ELSE 1),
           tradeable_periods |-> st.tradeable_periods + (IF tradeable THEN 1 ELSE 0),
           profitable_periods |->
               st.profitable_periods + (IF tradeable /\ profitable THEN 1 ELSE 0),
           total_gross_yield |->
               st.total_gross_yield + (IF tradeable THEN abs_funding ELSE 0),
           total_borrow_cost |->
               st.total_borrow_cost + (IF tradeable THEN borrow_cost ELSE 0),
           total_net_yield |->
               st.total_net_yield
                 + (IF tradeable /\ profitable
                    THEN net_yield - StrategyConfig.entry_cost - StrategyConfig.exit_cost
                    ELSE 0),
           by_coin |-> by_coin,
           by_month |-> by_month],
        tradeable |-> tradeable,
        opportunity |->
          [timestamp |-> period_time, coin |-> c,
           hl_funding_hourly |-> avg_hourly, hl_funding_8h |-> funding_8h,
           direction |-> direction, gross_yield_8h |-> abs_funding,
           borrow_cost_8h |-> borrow_cost, net_yield_8h |-> net_yield]]

StrategyCall ==
    /\ prog = "strategy"
    /\ pc = "call"
    /\ pc' = "loop"
    /\ opportunities' = <<>>
    /\ stats' = StatsZero
    /\ coins_todo' = DOMAIN hl_data
    /\ UNCHANGED <<prog, result, run_vars, agg_vars, io_vars,
                   hl_data, binance_data, coin, idx,
                   spreads, aligned, periods>>

\* for coin, records in hl_data.items(): the grouping loop; the dict is
\* iterated in the insertion order its builder chose
StrategyNextCoin ==
    /\ prog = "strategy"
    /\ pc = "loop"
    /\ coins_todo # {}
    /\ CoinDone(Len(periods))
    /\ \E c \in coins_todo :
         /\ coin' = c
         /\ coins_todo' = coins_todo \ {c}
         /\ periods' = GroupPeriods(hl_data[c], 1, <<>>)
    /\ idx' = 0
    /\ UNCHANGED <<prog, pc, result, run_vars, agg_vars, io_vars,
                   hl_data, binance_data, spreads,
                   aligned, opportunities, stats>>

\* for period_time, hourly_rates in periods.items(): one iteration
StrategyPeriod ==
    /\ prog = "strategy"
    /\ pc = "loop"
    /\ coin # "none"
    /\ idx < Len(periods)
    /\ idx' = idx + 1
    /\ LET p == periods[idx + 1]
           r == StrategyStep(coin, p.period_time, p.hourly_rates, stats)
       IN IF EnoughHours(p.hourly_rates)
          THEN /\ stats' = r.stats
               /\ opportunities' = IF r.tradeable
                                   THEN Append(opportunities, r.opportunity)
                                   ELSE opportunities
               /\ aligned' = Append(aligned,
                                    [coin |-> coin, period_time |-> p.period_time,
                                     records |-> Len(p.hourly_rates),
                                     counted |-> TRUE, emitted |-> r.tradeable])
          ELSE /\ UNCHANGED <<stats, opportunities>>
               /\ aligned' = Append(aligned,
                                    [coin |-> coin, period_time |-> p.period_time,
                                     records |-> Len(p.hourly_rates),
                                     counted |-> FALSE, emitted |-> FALSE])
    /\ UNCHANGED <<prog, pc, result, run_vars, agg_vars, io_vars,
                   hl_data, binance_data, coins_todo,
                   coin, spreads, periods>>

StrategyReturn ==
    /\ prog = "strategy"
    /\ pc = "loop"
    /\ coins_todo = {}
    /\ CoinDone(Len(periods))
    /\ pc' = "returned"
    /\ result' = [opportunities |-> SortByTimestamp(opportunities), stats |-> stats]
    /\ UNCHANGED <<prog, run_vars, agg_vars, io_vars, an_vars>>

StrategyInit ==
    /\ prog = "strategy"
    /\ pc = "call"
    /\ result = [none |-> TRUE]
    /\ RunIdle
    /\ hl_data \in StrategyInputs
    /\ binance_data = <<>>
    /\ coins_todo = {}
    /\ coin = "none"
    /\ idx = 0
    /\ spreads = <<>>
    /\ aligned = <<>>
    /\ periods = <<>>
    /\ opportunities = <<>>
    /\ stats = [total_periods |-> 0]
    /\ AggIdle
    /\ IOIdle

----------------------------------------------------------------------------
(* scripts/analyze_cross_venue.py: analyze_profitability                   *)
(*                                                                         *)
(* Units.  Spreads, fees and their sums are in units of 0.0000125 (0.0005  *)
(* is 40, 0.0012 is 96).  They are Python floats: every sum, difference    *)
(* and quotient is rounded to the nearest float, ties to even.  The model  *)
(* keeps that rounding with a significand of MantissaBits bits instead of  *)
(* 53, so that a sum of three spreads already rounds; the unit is the      *)
(* smallest step.  Timestamps are in quarter hours as in analyze_strategy. *)

\* longest list of spreads
MaxSpreads == 3

\* width of the significand of a float
MantissaBits == 5

RECURSIVE Pow2(_)
Pow2(k) == IF k = 0 THEN 1 ELSE 2 * Pow2(k - 1)

\* spacing of the floats around a magnitude of x
RECURSIVE Ulp(_, _)
Ulp(x, u) == IF x < Pow2(MantissaBits) * u THEN u ELSE Ulp(x, 2 * u)

\* the float nearest to num / den (den > 0), ties to even
FRoundQ(num, den) ==
    LET a == Abs(num)
        u == Ulp(a \div den, 1)
        q == a \div (den * u)
        r == a % (den * u)
        m == IF 2 * r > den * u \/ (2 * r = den * u /\ q % 2 = 1) THEN q + 1 ELSE q
    IN IF num < 0 THEN -(m * u) ELSE m * u

\* a + b, a - b and a / k on floats
FAdd(a, b) == FRoundQ(a + b, 1)

FSub(a, b) == FRoundQ(a - b, 1)

FDiv(a, k) == FRoundQ(a, k)

\* the keyword arguments: the defaults, and a min_spread of 0.001
ProfitConfig(min_spread) ==
    [min_spread |-> min_spread, entry_fee |-> 16, exit_fee |-> 16, slippage |-> 8]

\* spread_8h of the events of a list, by coin and timestamp: two coins, 08:00
\* of the last day of a month and of the first day of the next, and spreads
\* among -0.0003, 0.0005, -0.002 and 0.01
ProfitSpreads(c, ts) ==
    IF c = AllCoins[1] /\ ts = 8 * Hour THEN {-24, 40, -160, 800}
    ELSE IF c = AllCoins[1] THEN {40, 800}
    ELSE {40, -160}

\* the events of a list
ProfitEvents ==
    UNION {{[timestamp |-> key[2], coin |-> key[1], spread_8h |-> v] :
               v \in ProfitSpreads(key[1], key[2])} :
             key \in {<<AllCoins[1], 8 * Hour>>, <<AllCoins[1], 32 * Hour>>,
                      <<AllCoins[2], 8 * Hour>>}}

\* |spread_8h| of a single event: the floats at and just below the boundaries
\* of the buckets, 0.0008, and one above 0.01
BoundarySpreads == {0, 38, 40, 64, 76, 80, 152, 160, 384, 400, 768, 800, 960}

\* the argument spreads: a list of up to MaxSpreads events, or one event on
\* a boundary; only timestamp, coin and spread_8h of a SpreadOpportunity are read
ProfitInputs ==
    UNION {[1..k -> ProfitEvents] : k \in 0..MaxSpreads}
    \cup {<<[timestamp |-> 8 * Hour, coin |-> AllCoins[1], spread_8h |-> sgn * v]>> :
             v \in BoundarySpreads, sgn \in {-1, 1}}

ProfitConfigs(s) ==
    IF Len(s) = 1 THEN {ProfitConfig(40), ProfitConfig(80)} ELSE {ProfitConfig(40)}

\* total_cost_per_trade = 2 * (entry_fee + slippage + exit_fee + slippage)
TotalCostPerTrade(c) ==
    2 * FAdd(FAdd(FAdd(c.entry_fee, c.slippage), c.exit_fee), c.slippage)

\* variant: the boundaries belong to the bucket below
SpreadBucket_UpperInclusive(abs_spread) ==
    IF abs_spread <= 40 THEN "0-0.05%"
    ELSE IF abs_spread <= 80 THEN "0.05-0.1%"
    ELSE IF abs_spread <= 160 THEN "0.1-0.2%"
    ELSE IF abs_spread <= 400 THEN "0.2-0.5%"
    ELSE IF abs_spread <= 800 THEN "0.5-1%"
    ELSE ">1%"

\* the if / elif chain over abs_spread < 0.0005, 0.001, 0.002, 0.005, 0.01
SpreadBucket(abs_spread) ==
    IF abs_spread < 40 THEN "0-0.05%"
    ELSE IF abs_spread < 80 THEN "0.05-0.1%"
    ELSE IF abs_spread < 160 THEN "0.1-0.2%"
    ELSE IF abs_spread < 400 THEN "0.2-0.5%"
    ELSE IF abs_spread < 800 THEN "0.5-1%"
    ELSE ">1%"

BucketNames == {"0-0.05%", "0.05-0.1%", "0.1-0.2%", "0.2-0.5%", "0.5-1%", ">1%"}

\* variant: a spread of exactly min_spread is not traded
IsTradeable_Strict(abs_spread, c) == abs_spread > c.min_spread

\* if abs_spread >= min_spread
IsTradeable(abs_spread, c) == abs_spread >= c.min_spread

\* variant: the rollup keeps the last value
AddTo_Replace(acc, x) == x

\* acc += x on floats
AddTo(acc, x) == FAdd(acc, x)

\* variant: the rollup adds the net of a losing event too
RollupNet_Signed(net_profit) == net_profit

\* max(0, net_profit)
RollupNet(net_profit) == Max(0, net_profit)

\* the results dict before the loop
ResultsZero(len) ==
    [total_opportunities |-> len, tradeable_opportunities |-> 0,
     profitable_after_costs |-> 0, total_gross_spread |-> 0,
     total_net_profit |-> 0, by_coin |-> <<>>, by_month |-> <<>>,
     spread_distribution |-> [b \in BucketNames |-> 0]]

CoinZero == [count |-> 0, gross |-> 0, net |-> 0, avg_spread |-> 0]

MonthZero == [count |-> 0, gross |-> 0, net |-> 0]

\* the body of the loop over spreads for the event o
ProfitStep(res, o, c) ==
    LET abs_spread == Abs(o.spread_8h)
        bucket == SpreadBucket(abs_spread)
        counted == [res EXCEPT !.spread_distribution[bucket] = @ + 1]
        net_profit == FSub(abs_spread, TotalCostPerTrade(c))
        month_key == MonthKey(o.timestamp)
        coin_old == IF o.coin \in DOMAIN res.by_coin THEN res.by_coin[o.coin]
                    ELSE CoinZero
        month_old == IF month_key \in DOMAIN res.by_month THEN res.by_month[month_key]
                     ELSE MonthZero
    IN IF IsTradeable(abs_spread, c)
       THEN [counted EXCEPT
               !.tradeable_opportunities = @ + 1,
               !.total_gross_spread = FAdd(@, abs_spread),
               !.profitable_after_costs = IF net_profit > 0 THEN @ + 1 ELSE @,
               !.total_net_profit = IF net_profit > 0 THEN FAdd(@, net_profit) ELSE @,
               !.by_coin = Bump(@, o.coin, CoinZero,
                                [old \in {coin_old} |->
                                   [old EXCEPT
                                      !.count = @ + 1,
                                      !.gross = AddTo(@, abs_spread),
                                      !.net = AddTo(@, RollupNet(net_profit))]]),
               !.by_month = Bump(@, month_key, MonthZero,
                                 [old \in {month_old} |->
                                    [old EXCEPT
                                       !.count = @ + 1,
                                       !.gross = AddTo(@, abs_spread),
                                       !.net = AddTo(@, RollupNet(net_profit))]])]
       ELSE counted

\* the loop over spreads from position i on
RECURSIVE ProfitFold(_, _, _, _)
ProfitFold(s, i, res, c) ==
    IF i > Len(s) THEN res ELSE ProfitFold(s, i + 1, ProfitStep(res, s[i], c), c)

\* the loop over by_coin.values() that fills avg_spread
ProfitFinish(res) ==
    [res EXCEPT !.by_coin =
        [k \in DOMAIN res.by_coin |->
            IF res.by_coin[k].count > 0
            THEN [res.by_coin[k] EXCEPT
                    !.avg_spread = FDiv(res.by_coin[k].gross, res.by_coin[k].count)]
            ELSE res.by_coin[k]]]

\* what a call of analyze_profitability leaves alone
profit_rest == <<prog, run_vars, io_vars, hl_data, binance_data, coins_todo, coin,
                 spreads, aligned, periods, opportunities, stats>>

ProfitCall ==
    /\ prog = "profit"
    /\ pc = "call"
    /\ pc' = "loop"
    /\ results' = ResultsZero(Len(spreads))
    /\ idx' = 0
    /\ UNCHANGED <<profit_rest, result, calls>>

\* for opp in spreads: one iteration
ProfitEvent ==
    /\ prog = "profit"
    /\ pc = "loop"
    /\ idx < Len(spreads)
    /\ results' = ProfitStep(results, spreads[idx + 1], cfg)
    /\ idx' = idx + 1
    /\ UNCHANGED <<profit_rest, pc, result, calls>>

ProfitReturn ==
    /\ prog = "profit"
    /\ pc = "loop"
    /\ idx = Len(spreads)
    /\ results' = ProfitFinish(results)
    /\ result' = results'
    /\ pc' = "returned"
    /\ UNCHANGED <<profit_rest, idx, calls>>

\* the caller calls analyze_profitability once more on the same list
ProfitAgain ==
    /\ prog = "profit"
    /\ pc = "returned"
    /\ calls = <<>>
    /\ calls' = <<result>>
    /\ pc' = "call"
    /\ UNCHANGED <<profit_rest, idx, result, results>>

ProfitInit ==
    /\ prog = "profit"
    /\ pc = "call"
    /\ result = [none |-> TRUE]
    /\ spreads \in ProfitInputs
    /\ cfg \in ProfitConfigs(spreads)
    /\ feed = "none"
    /\ total = 0
    /\ n = 0
    /\ first_ts = 0
    /\ opp = NoOpp
    /\ equity = 0
    /\ positions = <<>>
    /\ new_positions = <<>>
    /\ trades = <<>>
    /\ equity_curve = <<>>
    /\ opened = 0
    /\ entry_log = <<>>
    /\ ss_positions = <<>>
    /\ period_events = <<>>
    /\ ss_totals = [total_funding_usd |-> 0]
    /\ hl_data = <<>>
    /\ binance_data = <<>>
    /\ coins_todo = {}
    /\ coin = "none"
    /\ idx = 0
    /\ aligned = <<>>
    /\ periods = <<>>
    /\ opportunities = <<>>
    /\ stats = [total_periods |-> 0]
    /\ AggIdle
    /\ IOIdle

AnalysisInit ==
    \/ AlignInit
    \/ StrategyInit
    \/ ProfitInit

AnalysisNext ==
    \/ AlignCall
    \/ AlignNextCoin
    \/ AlignPeriod
    \/ AlignReturn
    \/ StrategyCall
    \/ StrategyNextCoin
    \/ StrategyPeriod
    \/ StrategyReturn
    \/ ProfitCall
    \/ ProfitEvent
    \/ ProfitReturn
    \/ ProfitAgain

AnalysisSpec == AnalysisInit /\ [][AnalysisNext]_vars

----------------------------------------------------------------------------
(* The paginated fetch loops (specification FetchSpec):                    *)
(*   fetch_cv     : scripts/analyze_cross_venue.py                         *)
(*                  fetch_binance_funding_history                          *)
(*   fetch_fp     : scripts/analyze_funding_profitability.py               *)
(*                  fetch_funding_rates                                    *)
(*   fetch_fh     : scripts/fetch_historical_data.py  fetch_funding_rates  *)
(*   fetch_klines : scripts/fetch_historical_data.py  fetch_klines         *)
(* and scripts/fetch_historical_data.py align_to_funding_time (align_time).*)
(*                                                                         *)
(* Units.  The cursor and the record times of the fetch loops are in       *)
(* milliseconds, taken from 0..MaxTime + 1.  The server is free: every     *)
(* request is answered by 429, by an error status, by an empty page or by  *)
(* a page whose last record has any time.  A page is kept as the time of   *)
(* its last record.  align_to_funding_time takes quarter hours.            *)

\* largest start and end of the requested range
MaxTime == 3

\* number of 429 replies the server gives at most
MaxThrottle == 2

\* number of pages after which the run is no longer followed
MaxPages == 3

\* days covered by the arguments of align_to_funding_time
MaxDays == 2

Fetchers == {"fetch_cv", "fetch_fp", "fetch_fh", "fetch_klines"}

\* if last_time <= current_start: break
HasStallGuard(p) == p # "fetch_fp"

\* try: ... except Exception: break
CatchesErrors(p) == p = "fetch_cv"

\* what a fetch loop leaves alone
fetch_rest == <<prog, run_vars, an_vars, agg_vars, end_time, timestamp_ms>>

\* while current_start < end_time: false
FetchDone ==
    /\ prog \in Fetchers
    /\ pc = "loop"
    /\ ~(current_start < end_time)
    /\ pc' = "returned"
    /\ result' = all_rates
    /\ UNCHANGED <<fetch_rest, current_start, all_rates, throttled>>

\* status 429: sleep and continue
FetchThrottled ==
    /\ prog \in Fetchers
    /\ pc = "loop"
    /\ current_start < end_time
    /\ throttled < MaxThrottle
    /\ throttled' = throttled + 1
    /\ UNCHANGED <<fetch_rest, pc, result, current_start, all_rates>>

\* raise_for_status() raises (or, in fetch_cv, requests.get does)
FetchError ==
    /\ prog \in Fetchers
    /\ pc = "loop"
    /\ current_start < end_time
    /\ IF CatchesErrors(prog)
       THEN /\ pc' = "returned"
            /\ result' = all_rates
       ELSE /\ pc' = "raised"
            /\ UNCHANGED result
    /\ UNCHANGED <<fetch_rest, current_start, all_rates, throttled>>

\* if not data: break
FetchEmpty ==
    /\ prog \in Fetchers
    /\ pc = "loop"
    /\ current_start < end_time
    /\ pc' = "returned"
    /\ result' = all_rates
    /\ UNCHANGED <<fetch_rest, current_start, all_rates, throttled>>

\* a page of records, the last of time last_time
FetchPage ==
    /\ prog \in Fetchers
    /\ pc = "loop"
    /\ current_start < end_time
    /\ Len(all_rates) < MaxPages
    /\ \E last_time \in 0..(MaxTime + 1) :
         /\ all_rates' = Append(all_rates, last_time)
         /\ IF HasStallGuard(prog) /\ last_time <= current_start
            THEN /\ pc' = "returned"
                 /\ result' = all_rates'
                 /\ UNCHANGED current_start
            ELSE /\ current_start' = last_time + 1
                 /\ UNCHANGED <<pc, result>>
    /\ UNCHANGED <<fetch_rest, throttled>>

\* min(funding_hours, key=lambda h: abs(h - hour) if abs(h - hour) <= 4 else 24):
\* the first of 0, 8, 16 with the least key
NearestHour(hour) ==
    LET funding_hours == <<0, 8, 16>>
        key(h) == IF Abs(h - hour) <= 4 THEN Abs(h - hour) ELSE 24
        i == CHOOSE k \in 1..3 :
                /\ \A j \in 1..3 : key(funding_hours[k]) <= key(funding_hours[j])
                /\ \A j \in 1..(k - 1) : key(funding_hours[j]) > key(funding_hours[k])
    IN funding_hours[i]

\* dt.replace(hour=nearest_hour, minute=0, second=0, microsecond=0)
AlignToFundingTime(ts) ==
    LET day == ts \div (24 * Hour)
        hour == (ts \div Hour) % 24
    IN day * 24 * Hour + NearestHour(hour) * Hour

AlignTime ==
    /\ prog = "align_time"
    /\ pc = "call"
    /\ pc' = "returned"
    /\ result' = AlignToFundingTime(timestamp_ms)
    /\ UNCHANGED <<prog, run_vars, an_vars, agg_vars, io_vars>>

FetchInit ==
    /\ prog \in Fetchers \cup {"align_time"}
    /\ result = [none |-> TRUE]
    /\ RunIdle
    /\ hl_data = <<>>
    /\ binance_data = <<>>
    /\ coins_todo = {}
    /\ coin = "none"
    /\ idx = 0
    /\ spreads = <<>>
    /\ aligned = <<>>
    /\ periods = <<>>
    /\ opportunities = <<>>
    /\ stats = [total_periods |-> 0]
    /\ AggIdle
    /\ all_rates = <<>>
    /\ throttled = 0
    /\ IF prog = "align_time"
       THEN /\ pc = "call"
            /\ timestamp_ms \in 0..(MaxDays * 24 * Hour - 1)
            /\ current_start = 0
            /\ end_time = 0
       ELSE /\ pc = "loop"
            /\ timestamp_ms = 0
            /\ current_start \in 0..MaxTime
            /\ end_time \in 0..MaxTime

FetchNext ==
    \/ FetchDone
    \/ FetchThrottled
    \/ FetchError
    \/ FetchEmpty
    \/ FetchPage
    \/ AlignTime

FetchSpec == FetchInit /\ [][FetchNext]_vars

----------------------------------------------------------------------------
(* Properties *)

IsTrading == prog \in {"cv", "hl"}

\* capital >= 0, position fraction in (0, 1], max_positions > 0
ValidConfiguration ==
    /\ cfg.capital >= 0
    /\ prog = "cv" => /\ cfg.position_size_pct > 0
                      /\ cfg.position_size_pct <= 100
                      /\ cfg.max_positions > 0
    /\ prog = "hl" => /\ cfg.position_pct > 0
                      /\ cfg.position_pct <= 100
                      /\ cfg.max_positions > 0

HoldPeriods == cfg.hold_periods

\* min_spread (cv) / min_net_yield (hl) test of the event processed last
OppQualifies ==
    IF prog = "cv" THEN Abs(opp.spread_8h) >= cfg.min_spread
    ELSE opp.net_yield_8h >= cfg.min_net_yield

\* elapsed time, in hours, of a position at the event processed last
ElapsedHours(pos, o) == o.timestamp - pos.entry_time

OpenedBy(o, ps) ==
    /\ Len(ps) > 0
    /\ Last(ps).coin = o.coin
    /\ Last(ps).entry_time = o.timestamp

\* C1: in every state of a run of the cross-venue simulate_trading, the HL
\* simulate_trading (max_positions >= 1) and simulate_strategy (MAX_POSITIONS),
\* the number of open positions is at most the maximum.
C1_ConcurrencyCap ==
    /\ (IsTrading /\ cfg.max_positions >= 1) =>
          /\ Len(positions) <= cfg.max_positions
          /\ Len(new_positions) <= cfg.max_positions
    /\ prog = "ss" => Cardinality(DOMAIN ss_positions) <= MAX_POSITIONS

\* the set is full and the last event, on another coin, qualified and was refused
C1_Witness ==
    /\ prog = "cv"
    /\ pc = "loop"
    /\ n >= 1
    /\ Len(positions) = cfg.max_positions
    /\ cfg.max_positions = 3
    /\ OppQualifies
    /\ opp.coin \notin PositionCoins(positions)

\* C2: in every state of a run of the three simulators no two open positions
\* are on the same instrument; in simulate_strategy each position is stored
\* under its own symbol.
C2_OnePositionPerInstrument ==
    /\ IsTrading =>
          \A i, j \in 1..Len(positions) :
              positions[i].coin = positions[j].coin => i = j
    /\ prog = "ss" =>
          \A sym \in DOMAIN ss_positions : ss_positions[sym].symbol = sym

\* a qualifying event on a coin that is already open, with capacity left, was refused
C2_Witness ==
    /\ prog = "hl"
    /\ pc = "loop"
    /\ n >= 2
    /\ OppQualifies
    /\ Len(positions) < cfg.max_positions
    /\ \E i \in 1..Len(positions) :
          /\ positions[i].coin = opp.coin
          /\ positions[i].entry_time < opp.timestamp

\* C3: in both simulate_trading loops the closes of an event precede its open
\* check: when the list is full before the event, a position matures at it and
\* the event qualifies on a coin none of the remaining positions holds, the
\* event opens a position.
C3_ClosesPrecedeOpens ==
    [][(/\ IsTrading
        /\ pc = "loop"
        /\ n' = n + 1
        /\ cfg.max_positions >= 1
        /\ Len(positions) = cfg.max_positions
        /\ \E i \in 1..Len(positions) :
              ElapsedHours(positions[i], opp') >= 8 * HoldPeriods
        /\ OppQualifies'
        /\ \A i \in 1..Len(positions) :
              ElapsedHours(positions[i], opp') < 8 * HoldPeriods
                  => positions[i].coin # opp'.coin)
       => /\ Len(trades') > Len(trades)
          /\ Len(new_positions') < Len(positions)
          /\ Len(positions') = Len(new_positions') + 1
          /\ OpenedBy(opp', positions')]_vars

\* the second event closed the only position and opened one in the freed slot
C3_Witness ==
    /\ IsTrading
    /\ n = 2
    /\ cfg.max_positions = 1
    /\ Len(trades) = 1
    /\ trades[1].exit = opp.timestamp
    /\ Len(positions) = 1
    /\ OpenedBy(opp, positions)
    /\ positions[1].coin # trades[1].coin

\* C4: in both simulate_trading loops an event closes exactly the positions
\* whose elapsed time is at least hold_periods 8-hour periods: those stay out
\* of the list left by the close phase and get one trade record each, the
\* others stay, in order, and get none.
C4_CloseExactlyMatured ==
    [][(IsTrading /\ pc = "loop" /\ n' = n + 1)
       => LET due == {i \in 1..Len(positions) :
                         ElapsedHours(positions[i], opp') >= 8 * HoldPeriods}
          IN /\ \A i \in 1..Len(positions) :
                   (i \in due) <=>
                       ~(\E j \in 1..Len(new_positions') :
                             new_positions'[j] = positions[i])
             /\ Len(new_positions') = Len(positions) - Cardinality(due)
             /\ Len(trades') = Len(trades) + Cardinality(due)
             /\ SubSeq(trades', 1, Len(trades)) = trades
             /\ \A k \in (Len(trades) + 1)..Len(trades') :
                   /\ trades'[k].exit = opp'.timestamp
                   /\ trades'[k].exit - trades'[k].entry >= 8 * HoldPeriods
                   /\ \E i \in due : /\ positions[i].coin = trades'[k].coin
                                      /\ positions[i].entry_time = trades'[k].entry]_vars

\* the last event closed a position exactly at hold_periods and kept a younger one
C4_Witness ==
    /\ prog = "cv"
    /\ n >= 1
    /\ Len(trades) >= 1
    /\ Last(trades).exit = opp.timestamp
    /\ Last(trades).exit - Last(trades).entry = 8 * HoldPeriods
    /\ \E j \in 1..Len(new_positions) :
          /\ ElapsedHours(new_positions[j], opp) > 0
          /\ ElapsedHours(new_positions[j], opp) < 8 * HoldPeriods

\* C5: the cross-venue simulate_trading opens a position at an event iff, after
\* the close phase, |spread_8h| >= min_spread, fewer than max_positions are open
\* and none is on the event's coin; 5 qualifying events on 5 coins in one period
\* with max_positions = 3 open exactly 3 positions.
C5_OpenIff ==
    (prog = "cv" /\ n >= 1) =>
        /\ LET cond == /\ Abs(opp.spread_8h) >= cfg.min_spread
                       /\ Len(new_positions) < cfg.max_positions
                       /\ \A i \in 1..Len(new_positions) :
                             new_positions[i].coin # opp.coin
           IN positions =
                 IF cond
                 THEN Append(new_positions,
                             [coin |-> opp.coin, entry_time |-> opp.timestamp,
                              entry_spread |-> opp.spread_8h,
                              direction |-> opp.direction])
                 ELSE new_positions
        /\ (feed = "burst" /\ n = Len(AllCoins)) =>
              /\ cfg.max_positions = 3
              /\ Len(positions) = 3
              /\ PositionCoins(positions) = {AllCoins[1], AllCoins[2], AllCoins[3]}
              /\ opened = 3
              /\ Len(trades) = 0

\* five qualifying events on five coins in one period were fed; three are open
C5_Witness ==
    /\ prog = "cv"
    /\ feed = "burst"
    /\ n = 5
    /\ Len(positions) = 3
    /\ opened = 3
    /\ OppQualifies
    /\ opp.timestamp = first_ts

\* sum of trs[i].net for i in lo..hi
RECURSIVE NetBetween(_, _, _)
NetBetween(trs, lo, hi) ==
    IF lo > hi THEN 0 ELSE trs[lo].net + NetBetween(trs, lo + 1, hi)

RECURSIVE CostFrom(_, _)
CostFrom(log, i) == IF i > Len(log) THEN 0 ELSE log[i].cost + CostFrom(log, i + 1)

\* entry costs paid for the positions that are still open
RECURSIVE OpenCostFrom(_, _, _)
OpenCostFrom(log, ps, i) ==
    IF i > Len(log) THEN 0
    ELSE (IF \E j \in 1..Len(ps) : /\ ps[j].coin = log[i].coin
                                   /\ ps[j].entry_time = log[i].entry_time
          THEN log[i].cost ELSE 0)
         + OpenCostFrom(log, ps, i + 1)

\* C6, as stated: final_equity of the cross-venue simulate_trading is capital
\* plus the net of all recorded trades minus the entry costs of the positions
\* that were never closed.
C6_AsStated ==
    (prog = "cv" /\ pc = "returned" /\ ValidConfiguration) =>
        result.final_equity =
            cfg.capital + NetBetween(trades, 1, Len(trades))
                - OpenCostFrom(entry_log, positions, 1)

\* C6, amended: final_equity of the cross-venue simulate_trading is capital plus
\* the net of all recorded trades minus the entry costs of every position that
\* was opened, closed or not (a trade's net is gross minus exit costs only).
C6_EquityConservation ==
    /\ (prog = "cv" /\ pc = "loop") =>
          equity = cfg.capital + NetBetween(trades, 1, Len(trades))
                       - CostFrom(entry_log, 1)
    /\ (prog = "cv" /\ pc = "returned") =>
          result.final_equity =
              cfg.capital + NetBetween(trades, 1, Len(trades))
                  - CostFrom(entry_log, 1)

\* a run returned with a recorded trade and a position that was never closed
C6_Witness ==
    /\ prog = "cv"
    /\ pc = "returned"
    /\ Len(trades) >= 1
    /\ Len(positions) >= 1
    /\ CostFrom(entry_log, 1) > OpenCostFrom(entry_log, positions, 1)
    /\ OpenCostFrom(entry_log, positions, 1) > 0

\* positions the report declares as discarded (no such key in either script)
ReportedDiscarded(r) ==
    IF "discarded_positions" \in DOMAIN r THEN r.discarded_positions ELSE 0

\* C7: when a simulate_trading run returns, every position still open was
\* force-closed into the trade log or is reported as discarded: total_trades
\* plus the reported discarded positions is the number of positions opened.
C7_NoSilentDrop ==
    (IsTrading /\ pc = "returned" /\ ValidConfiguration) =>
        result.total_trades + ReportedDiscarded(result) = opened

\* C8: an invalid configuration is rejected before any simulation state is
\* created and before any event is processed, and no result is returned.
C8_InvalidConfigurationRejected ==
    ~ValidConfiguration =>
        /\ pc \in {"call", "fault"}
        /\ n = 0
        /\ result = [none |-> TRUE]

\* the position a trade record came from
ClosedPosition(ps, t) ==
    CHOOSE p \in {ps[i] : i \in 1..Len(ps)} :
        p.coin = t.coin /\ p.entry_time = t.entry

EntryYield(pos) ==
    IF prog = "cv" THEN Abs(pos.entry_spread) ELSE pos.expected_yield

PositionPct == IF prog = "cv" THEN cfg.position_size_pct ELSE cfg.position_pct

\* C9, as stated: at every close of both simulate_trading loops the gross P&L
\* is the yield of the whole holding window (hold_periods periods of the entry
\* yield) times the position fraction times the equity at that close, the exit
\* cost is deducted, equity grows by the net and one trade record is appended.
C9_AsStated ==
    [][(IsTrading /\ pc = "loop" /\ n' = n + 1 /\ ValidConfiguration)
       => /\ Len(trades') - Len(trades) = Len(positions) - Len(new_positions')
          /\ \A k \in (Len(trades) + 1)..Len(trades') :
                LET t == trades'[k]
                    pos == ClosedPosition(positions, t)
                    eq == equity + NetBetween(trades', Len(trades) + 1, k - 1)
                IN /\ t.gross = Frac(EntryYield(pos) * HoldPeriods, PositionPct, eq)
                   /\ t.net = t.gross
                        - Frac((IF prog = "cv" THEN 2 ELSE 1) * cfg.exit_cost,
                               PositionPct, eq)
          /\ equity' + (IF Len(entry_log') > Len(entry_log)
                        THEN Last(entry_log').cost ELSE 0)
                = equity + NetBetween(trades', Len(trades) + 1, Len(trades'))]_vars

\* C9, amended: at every close, the cross-venue loop takes gross =
\* |entry_spread| * position_size_pct * equity at that close (one period's
\* spread whatever hold_periods is) and deducts 2 * exit_cost * position_size_pct
\* * equity; the HL loop takes gross = expected_yield * hold_periods *
\* position_pct * capital (the initial capital, not the equity at the close) and
\* deducts (entry_cost + exit_cost) * position_pct * capital; in both, equity
\* grows by the net and exactly one trade record is appended per closed position.
C9_RealizedPnl ==
    [][(IsTrading /\ pc = "loop" /\ n' = n + 1)
       => /\ Len(trades') - Len(trades) = Len(positions) - Len(new_positions')
          /\ \A k \in (Len(trades) + 1)..Len(trades') :
                LET t == trades'[k]
                    pos == ClosedPosition(positions, t)
                    eq == equity + NetBetween(trades', Len(trades) + 1, k - 1)
                IN IF prog = "cv"
                   THEN /\ t.gross = (Abs(pos.entry_spread) * cfg.position_size_pct * eq)
                                         \div 1000000
                        /\ t.net = t.gross
                             - (2 * cfg.exit_cost * cfg.position_size_pct * eq)
                                   \div 1000000
                   ELSE /\ t.gross = (pos.expected_yield * cfg.hold_periods
                                          * cfg.position_pct * cfg.capital) \div 1000000
                        /\ t.net = t.gross
                             - ((cfg.entry_cost + cfg.exit_cost) * cfg.position_pct
                                    * cfg.capital) \div 1000000
          /\ equity' + (IF Len(entry_log') > Len(entry_log)
                        THEN Last(entry_log').cost ELSE 0)
                = equity + NetBetween(trades', Len(trades) + 1, Len(trades'))]_vars

\* the HL loop closed a position when equity had already moved away from capital
C9_Witness ==
    /\ prog = "hl"
    /\ Len(trades) = 2
    /\ trades[1].net # 0
    /\ trades[1].exit < trades[2].exit
    /\ trades[2].gross > 0

\* C10, as stated: in both simulate_trading loops the step that opens a
\* position decreases equity by that position's entry cost at that same event.
C10_AsStated ==
    [][(IsTrading /\ pc = "loop" /\ n' = n + 1 /\ ValidConfiguration
            /\ Len(positions') = Len(new_positions') + 1)
       => equity' =
            (equity + NetBetween(trades', Len(trades) + 1, Len(trades')))
            - (IF prog = "cv"
               THEN (2 * cfg.entry_cost * cfg.position_size_pct
                       * (equity + NetBetween(trades', Len(trades) + 1, Len(trades'))))
                        \div 1000000
               ELSE (cfg.entry_cost * cfg.position_pct * cfg.capital)
                        \div 1000000)]_vars

\* C10, amended: the cross-venue loop decreases equity by 2 * entry_cost *
\* position_size_pct * equity in the step that opens a position; the HL loop
\* leaves equity unchanged when it opens a position and charges the entry cost
\* together with the exit cost when (and only if) the position is closed.
C10_EntryCostAtOpen ==
    [][(IsTrading /\ pc = "loop" /\ n' = n + 1
            /\ Len(positions') = Len(new_positions') + 1)
       => equity' =
            (equity + NetBetween(trades', Len(trades) + 1, Len(trades')))
            - (IF prog = "cv"
               THEN (2 * cfg.entry_cost * cfg.position_size_pct
                       * (equity + NetBetween(trades', Len(trades) + 1, Len(trades'))))
                        \div 1000000
               ELSE 0)]_vars

\* the cross-venue loop just opened a position and paid for it
C10_Witness ==
    /\ prog = "cv"
    /\ pc = "loop"
    /\ OpenedBy(opp, positions)
    /\ Len(entry_log) >= 1
    /\ Last(entry_log).cost > 0
    /\ Len(trades) >= 1
    /\ Last(trades).exit = opp.timestamp

\* C11: the cross-venue loop appends one equity-curve point per processed
\* event, (that event's timestamp, the equity left by its close and open
\* phases), after the initial point; the returned equity_curve is the last
\* 100 points of that list, so it has min(100, events + 1) points.
C11_EquityCurve ==
    [][/\ (prog = "cv" /\ n' = n + 1)
            => equity_curve' = Append(equity_curve, <<opp'.timestamp, equity'>>)
       /\ (prog = "cv" /\ pc' = "loop")
            => /\ Len(equity_curve') = n' + 1
               /\ equity_curve'[1][2] = cfg.capital
       /\ (prog = "cv" /\ pc' = "returned")
            => LET rc == result'.equity_curve
                   k == Len(equity_curve') - Len(rc)
               IN /\ Len(equity_curve') = total + 1
                  /\ Len(rc) = (IF total + 1 < 100 THEN total + 1 ELSE 100)
                  /\ \A i \in 1..Len(rc) : rc[i] = equity_curve'[k + i]]_vars

\* more than 100 points were recorded and the call returned the last 100
C11_Witness ==
    /\ prog = "cv"
    /\ pc = "returned"
    /\ Len(equity_curve) > 100
    /\ Len(result.equity_curve) = 100
    /\ result.equity_curve[1] = equity_curve[Len(equity_curve) - 99]
    /\ result.equity_curve[1] # equity_curve[1]

\* whole days between the first and the last event of the list
DaysElapsed == IF total > 0 THEN Days(opp.timestamp - first_ts) ELSE 0

\* C12: in both simulate_trading functions, a call whose events span no whole
\* day (an empty list included) returns a result whose annualized_return_pct
\* is 0; it does not end in a division fault.
C12_ZeroDaysReturnsZero ==
    (IsTrading /\ ValidConfiguration /\ n = total /\ pc \in {"returned", "fault"}
        /\ DaysElapsed <= 0)
       => (pc = "returned" /\ result.annualized_return_pct = 0)

\* C13: simulate_strategy returns 0 for a ratio whose denominator is zero:
\* when no whole day lies between the first and the last event, gross_apy and
\* net_apy are 0, and the call does not end in a division fault.
C13_ZeroDaysSentinel ==
    (prog = "ss" /\ cfg.capital > 0 /\ total > 0 /\ n = total
        /\ pc \in {"returned", "fault"} /\ DaysElapsed = 0)
       => (pc = "returned" /\ result.gross_apy = 0 /\ result.net_apy = 0)

----------------------------------------------------------------------------
(* Properties of align_and_calculate_spreads *)

Range(s) == {s[i] : i \in 1..Len(s)}

IsAligning == prog = "align" /\ pc \in {"loop", "returned"}

\* indices of the records of coin c less than 30 minutes (2 quarter hours)
\* from time t
Within(c, t) == {i \in 1..Len(hl_data[c]) : Abs(hl_data[c][i][1] - t) < 2}

\* the k-th sub-timestamp of the settlement at bts: bts - k hours
SubTimestamp(bts, k) == bts - 4 * k

\* number of the 8 sub-timestamps of the settlement that have a record
Covered(c, bts) ==
    Cardinality({k \in 0..7 : Within(c, SubTimestamp(bts, k)) # {}})

\* rate of the first record in list order within tolerance of t, 0 if none
RateAt(c, t) ==
    IF Within(c, t) = {} THEN 0
    ELSE hl_data[c][CHOOSE i \in Within(c, t) : \A j \in Within(c, t) : i <= j][2]

SumRates(c, bts) ==
    RateAt(c, SubTimestamp(bts, 0)) + RateAt(c, SubTimestamp(bts, 1))
    + RateAt(c, SubTimestamp(bts, 2)) + RateAt(c, SubTimestamp(bts, 3))
    + RateAt(c, SubTimestamp(bts, 4)) + RateAt(c, SubTimestamp(bts, 5))
    + RateAt(c, SubTimestamp(bts, 6)) + RateAt(c, SubTimestamp(bts, 7))

\* the event the period logged at aligned[j] appended to spreads
EventOf(j) ==
    spreads[Cardinality({i \in 1..j : aligned[i].emitted})]

\* C16: every emitted event carries as hl_rate_8h the sum of the rates of the
\* HL records matched to the 8 sub-timestamps binance_ts - k hours, as
\* binance_rate_8h the rate of its Binance record, and as spread_8h their
\* difference; 8 hourly records of 0.0001 against 0.0005 give a spread of
\* 0.0003 with direction long_binance_short_hl.
C16_SumAndSpread ==
    IsAligning =>
        \A j \in 1..Len(aligned) :
            aligned[j].emitted =>
                LET a == aligned[j]
                    e == EventOf(j)
                IN /\ e.timestamp = a.binance_ts
                   /\ e.coin = a.coin
                   /\ e.hl_rate_8h = SumRates(a.coin, a.binance_ts)
                   /\ e.binance_rate_8h = a.binance_rate
                   /\ e.spread_8h = e.hl_rate_8h - e.binance_rate_8h
                   /\ (hl_data[a.coin] = Hourly(1..8, 1) /\ a.binance_ts = 8 * 4
                          /\ a.binance_rate = 5)
                        => (e.hl_rate_8h = 8 /\ e.spread_8h = 3
                              /\ e.direction = "long_binance_short_hl")

\* the 8 hourly records of 0.0001 met the 08:00 settlement of 0.0005
C16_Witness ==
    /\ prog = "align"
    /\ pc = "returned"
    /\ AllCoins[1] \in DOMAIN hl_data
    /\ hl_data[AllCoins[1]] = Hourly(1..8, 1)
    /\ \E i \in 1..Len(result) :
         /\ result[i].timestamp = 8 * 4
         /\ result[i].hl_rate_8h = 8
         /\ result[i].binance_rate_8h = 5
         /\ result[i].spread_8h = 3

\* C17, as stated: every emitted event has a positive spread when its
\* direction is long_binance_short_hl and a negative spread when it is
\* long_hl_short_binance.
C17_AsStated ==
    IsAligning =>
        \A i \in 1..Len(spreads) :
            /\ spreads[i].direction = "long_binance_short_hl" => spreads[i].spread_8h > 0
            /\ spreads[i].direction = "long_hl_short_binance" => spreads[i].spread_8h < 0

\* C17, amended: the direction of an emitted event is long_binance_short_hl
\* exactly when its spread is positive, and long_hl_short_binance exactly
\* when its spread is negative or zero.
C17_DirectionBySign ==
    IsAligning =>
        \A i \in 1..Len(spreads) :
            /\ spreads[i].direction \in {"long_binance_short_hl", "long_hl_short_binance"}
            /\ spreads[i].direction = "long_binance_short_hl" <=> spreads[i].spread_8h > 0
            /\ spreads[i].direction = "long_hl_short_binance" <=> spreads[i].spread_8h <= 0

\* an event of spread zero was emitted, next to one of either sign
C17_Witness ==
    /\ prog = "align"
    /\ pc = "returned"
    /\ \E i, j \in 1..Len(result) :
         /\ result[i].spread_8h = 0
         /\ result[i].direction = "long_hl_short_binance"
         /\ result[j].spread_8h # 0

\* C18: while one period is built, every sub-timestamp consumes at most one HL
\* record, the first in list order less than 30 minutes from it, and no HL
\* record is consumed for two sub-timestamps, so hl_count is at most 8.
C18_OneRecordPerSubTimestamp ==
    IsAligning =>
        \A j \in 1..Len(aligned) :
            LET a == aligned[j]
                m == a.matched
            IN /\ a.hl_count = Len(m)
               /\ a.hl_count <= 8
               /\ \A x, y \in 1..Len(m) :
                     x # y => (m[x][1] # m[y][1] /\ m[x][2] # m[y][2])
               /\ \A x \in 1..Len(m) :
                     LET w == Within(a.coin, SubTimestamp(a.binance_ts, m[x][1]))
                     IN /\ m[x][1] \in 0..7
                        /\ m[x][2] \in w
                        /\ \A i \in w : m[x][2] <= i

\* two records of different rates lay within 30 minutes of 08:00, the later
\* one in time first in the list: it was consumed and the other was not
C18_Witness ==
    /\ prog = "align"
    /\ Len(aligned) = 1
    /\ LET a == aligned[1]
           w == Within(a.coin, a.binance_ts)
       IN /\ Cardinality(w) = 2
          /\ \E i, j \in w :
               /\ i < j
               /\ hl_data[a.coin][i][1] > hl_data[a.coin][j][1]
               /\ hl_data[a.coin][i][2] # hl_data[a.coin][j][2]
               /\ \E x \in 1..Len(a.matched) : a.matched[x] = <<0, i>>
               /\ \A x \in 1..Len(a.matched) : a.matched[x][2] # j

CommonCoins == DOMAIN hl_data \cap DOMAIN binance_data

\* the events the loop body produces for one coin from the given lists
AlignEvents(c, hl_records, binance_records) ==
    LET acc(b) == MatchLoop(hl_records, b[1], 0,
                            [hl_8h_equivalent |-> 0, hl_count |-> 0, matched |-> <<>>])
    IN {SpreadOpportunity(c, b[1], acc(b).hl_8h_equivalent, b[2]) :
          b \in {x \in Range(binance_records) : HasCoverage(acc(x).hl_count)}}

Swap(s, i) ==
    [k \in 1..Len(s) |-> IF k = i THEN s[i + 1] ELSE IF k = i + 1 THEN s[i] ELSE s[k]]

\* the list reversed, and the list with two neighbours exchanged
Rearrangements(s) == {Reverse(s)} \cup {Swap(s, i) : i \in 1..(Len(s) - 1)}

\* C15: the set of events returned does not depend on the order of the
\* records inside hl_data[coin] and binance_data[coin]: any rearrangement of
\* either list gives the same timestamps, coins, rates, spreads and directions.
C15_OrderIndependent ==
    (prog = "align" /\ pc = "returned") =>
        \A c \in CommonCoins :
            /\ \A p \in Rearrangements(hl_data[c]) :
                 AlignEvents(c, p, binance_data[c]) = {e \in Range(result) : e.coin = c}
            /\ \A q \in Rearrangements(binance_data[c]) :
                 AlignEvents(c, hl_data[c], q) = {e \in Range(result) : e.coin = c}

\* C19: the returned list is in ascending timestamp order, and the events of
\* one coin have strictly increasing timestamps whose 8-hour windows do not
\* overlap (they lie at least 8 hours apart).
C19_IncreasingDisjointPeriods ==
    (prog = "align" /\ pc = "returned") =>
        \A i, j \in 1..Len(result) :
            i < j =>
                /\ result[i].timestamp <= result[j].timestamp
                /\ result[i].coin = result[j].coin
                     => result[j].timestamp - result[i].timestamp >= 8 * 4

\* the events one coin's own two lists determine
ExpectedEvents(c) ==
    {[timestamp |-> b[1], coin |-> c,
      hl_rate_8h |-> SumRates(c, b[1]),
      binance_rate_8h |-> b[2],
      spread_8h |-> SumRates(c, b[1]) - b[2],
      direction |-> IF SumRates(c, b[1]) - b[2] > 0
                    THEN "long_binance_short_hl" ELSE "long_hl_short_binance"] :
        b \in {x \in Range(binance_data[c]) : Covered(c, x[1]) >= 4}}

\* C20: events are emitted only for coins that are keys of both hl_data and
\* binance_data; a coin on one side only raises no error, and the events of a
\* coin on both sides are those its own two lists determine, whatever other
\* coins the inputs hold.
C20_OnlyCommonCoins ==
    prog = "align" =>
        /\ pc # "fault"
        /\ \A i \in 1..Len(spreads) : spreads[i].coin \in CommonCoins
        /\ pc = "returned" =>
             /\ Len(result) = Len(spreads)
             /\ \A c \in CommonCoins :
                  /\ {e \in Range(result) : e.coin = c} = ExpectedEvents(c)
                  /\ Cardinality({i \in 1..Len(result) : result[i].coin = c})
                       = Cardinality({i \in 1..Len(binance_data[c]) :
                                         Covered(c, binance_data[c][i][1]) >= 4})

\* one coin only in hl_data, the other on both venues: the call returned the
\* events of the second alone
C20_Witness ==
    /\ prog = "align"
    /\ pc = "returned"
    /\ AllCoins[1] \in DOMAIN hl_data
    /\ AllCoins[1] \notin DOMAIN binance_data
    /\ AllCoins[2] \in CommonCoins
    /\ Len(result) = 2
    /\ \A i \in 1..Len(result) : result[i].coin = AllCoins[2]

----------------------------------------------------------------------------
(* Properties of the coverage rule *)

\* number of records of coin c stamped inside the 8 hours from period_time on
RecordsIn(c, period_time) ==
    Cardinality({i \in 1..Len(hl_data[c]) :
                    /\ hl_data[c][i].timestamp >= period_time
                    /\ hl_data[c][i].timestamp < period_time + 8 * 4})

\* start of the 8-hour bucket (00:00, 08:00, 16:00) that holds time ts
BucketOf(ts) == ts - (ts % (8 * 4))

\* C14: align_and_calculate_spreads emits an event for a Binance settlement
\* exactly when at least 4 of its 8 hourly sub-timestamps have an HL record
\* within tolerance; analyze_strategy counts an 8-hour bucket as a period (and
\* may emit an opportunity for it) exactly when it holds at least 4 records.
C14_CoverageRule ==
    /\ (prog = "align" /\ pc \in {"loop", "returned"}) =>
          /\ \A j \in 1..Len(aligned) :
                aligned[j].emitted <=> Covered(aligned[j].coin, aligned[j].binance_ts) >= 4
          /\ Len(spreads) = Cardinality({j \in 1..Len(aligned) : aligned[j].emitted})
          /\ \A i \in 1..Len(spreads) : Covered(spreads[i].coin, spreads[i].timestamp) >= 4
          /\ pc = "returned" =>
                \A c \in CommonCoins : \A i \in 1..Len(binance_data[c]) :
                    Covered(c, binance_data[c][i][1]) >= 4
                        => \E k \in 1..Len(result) :
                              /\ result[k].coin = c
                              /\ result[k].timestamp = binance_data[c][i][1]
    /\ (prog = "strategy" /\ pc \in {"loop", "returned"}) =>
          /\ \A j \in 1..Len(aligned) :
                /\ aligned[j].counted
                      <=> RecordsIn(aligned[j].coin, aligned[j].period_time) >= 4
                /\ aligned[j].emitted => aligned[j].counted
          /\ stats.total_periods
                = Cardinality({j \in 1..Len(aligned) : aligned[j].counted})
          /\ Len(opportunities)
                = Cardinality({j \in 1..Len(aligned) : aligned[j].emitted})
          /\ \A i \in 1..Len(opportunities) :
                RecordsIn(opportunities[i].coin, opportunities[i].timestamp) >= 4
          /\ pc = "returned" =>
                \A c \in DOMAIN hl_data : \A i \in 1..Len(hl_data[c]) :
                    LET b == BucketOf(hl_data[c][i].timestamp)
                    IN RecordsIn(c, b) >= 4
                         => \E j \in 1..Len(aligned) :
                               /\ aligned[j].coin = c
                               /\ aligned[j].period_time = b
                               /\ aligned[j].counted

\* of two settlements of one coin, the one with 4 matched sub-timestamps was
\* emitted and the one with 3 was not
C14_Witness ==
    /\ prog = "align"
    /\ pc = "returned"
    /\ Len(result) = 1
    /\ \E i, j \in 1..Len(aligned) :
         /\ aligned[i].hl_count = 4
         /\ aligned[i].emitted
         /\ result[1].timestamp = aligned[i].binance_ts
         /\ aligned[j].hl_count = 3
         /\ ~aligned[j].emitted

----------------------------------------------------------------------------
(* Properties of the 8-hour buckets of analyze_strategy *)

\* the records of the coin being grouped that fall in the 8 hours from start on
InBucket(start) ==
    {i \in 1..Len(hl_data[coin]) :
        /\ start <= hl_data[coin][i].timestamp
        /\ hl_data[coin][i].timestamp < start + 8 * Hour}

RECURSIVE SumRecordRates(_, _)
SumRecordRates(c, S) ==
    IF S = {} THEN 0
    ELSE LET i == CHOOSE x \in S : TRUE
         IN hl_data[c][i].funding_rate + SumRecordRates(c, S \ {i})

\* C26: every funding record of a coin is in exactly one 8-hour bucket, which
\* starts at 00:00, 08:00 or 16:00 of the record's own date and satisfies
\* bucket_start <= timestamp < bucket_start + 8h; the bucket holds the rates of
\* exactly the records of that window and funding_8h is their sum
C26_BucketAssignment ==
    (prog = "strategy" /\ pc = "loop" /\ coin # "none") =>
        /\ \A k, l \in 1..Len(periods) :
              periods[k].period_time = periods[l].period_time => k = l
        /\ \A k \in 1..Len(periods) :
              /\ periods[k].period_time % (8 * Hour) = 0
              /\ Len(periods[k].hourly_rates) = Cardinality(InBucket(periods[k].period_time))
              /\ SumSeq(periods[k].hourly_rates, 1)
                    = SumRecordRates(coin, InBucket(periods[k].period_time))
        /\ \A i \in 1..Len(hl_data[coin]) :
              \E k \in 1..Len(periods) :
                 /\ i \in InBucket(periods[k].period_time)
                 /\ periods[k].period_time \div (24 * Hour)
                       = hl_data[coin][i].timestamp \div (24 * Hour)
        /\ \A j \in 1..Len(opportunities) :
              opportunities[j].coin = coin =>
                 opportunities[j].hl_funding_8h
                   = SumRecordRates(coin, InBucket(opportunities[j].timestamp))

\* the records run from 19:45 to 23:45 of day 0 and from 00:45 of day 1 on; they
\* were grouped into the 16:00 bucket of day 0 and the 00:00 bucket of day 1, and
\* the opportunity of the first bucket carries the sum of its five rates
C26_Witness ==
    /\ prog = "strategy" /\ pc = "loop" /\ coin # "none"
    /\ Len(periods) = 2
    /\ \E i \in 1..Len(hl_data[coin]) : hl_data[coin][i].timestamp = 23 * Hour + 3
    /\ \E k \in 1..2 : /\ periods[k].period_time = 16 * Hour
                        /\ Len(periods[k].hourly_rates) = 5
    /\ \E k \in 1..2 : periods[k].period_time = 24 * Hour
    /\ \E j \in 1..Len(opportunities) :
          /\ opportunities[j].coin = coin
          /\ opportunities[j].timestamp = 16 * Hour
          /\ opportunities[j].hl_funding_8h = 5 * 600

----------------------------------------------------------------------------
(* Properties of analyze_profitability *)

IsProfit == prog = "profit" /\ pc \in {"loop", "returned"}

\* the events the loop has processed: all of them once the call has returned
Processed == 1..idx

AbsSpread(i) == Abs(spreads[i].spread_8h)

Tradeable == {i \in Processed : AbsSpread(i) >= cfg.min_spread}

\* 2 * (entry_fee + slippage + exit_fee + slippage)
RoundTripCost == 2 * (cfg.entry_fee + cfg.slippage + cfg.exit_fee + cfg.slippage)

Profitable == {i \in Tradeable : AbsSpread(i) - RoundTripCost > 0}

\* the float sum, in list order, of f over the events of S among the first i
RECURSIVE FloatSum(_, _, _)
FloatSum(f, S, i) ==
    IF i = 0 THEN 0
    ELSE IF i \in S THEN FRoundQ(FloatSum(f, S, i - 1) + f[i], 1)
    ELSE FloatSum(f, S, i - 1)

GrossOf == [i \in Processed |-> AbsSpread(i)]

NetOf == [i \in Processed |-> FRoundQ(AbsSpread(i) - RoundTripCost, 1)]

\* C21: an event is counted tradeable iff |spread_8h| >= min_spread and profitable
\* iff it is tradeable and |spread_8h| - total_cost > 0, with total_cost =
\* 2 * (entry_fee + slippage + exit_fee + slippage); total_gross_spread is the sum
\* of |spread_8h| over the tradeable events and total_net_profit the sum of the
\* net over the profitable ones.  With min_spread 0.0005 and total_cost 0.0012 a
\* |spread| of 0.002 is profitable with net 0.0008 and one of 0.0008 is tradeable
\* but not profitable.
C21_TradeableAndProfitable ==
    IsProfit =>
        /\ results.tradeable_opportunities = Cardinality(Tradeable)
        /\ results.profitable_after_costs = Cardinality(Profitable)
        /\ results.total_gross_spread = FloatSum(GrossOf, Tradeable, idx)
        /\ results.total_net_profit = FloatSum(NetOf, Profitable, idx)
        /\ (pc = "returned" /\ Len(spreads) = 1 /\ cfg.min_spread = 40
              /\ RoundTripCost = 96) =>
              /\ AbsSpread(1) = 160 =>
                    /\ result.tradeable_opportunities = 1
                    /\ result.profitable_after_costs = 1
                    /\ result.total_net_profit = 64
              /\ AbsSpread(1) = 64 =>
                    /\ result.tradeable_opportunities = 1
                    /\ result.profitable_after_costs = 0
                    /\ result.total_net_profit = 0

\* a list of three events was analysed: one below min_spread, one of exactly
\* min_spread (tradeable, not profitable) and one profitable
C21_Witness ==
    /\ prog = "profit" /\ pc = "returned"
    /\ Len(spreads) = 3
    /\ \E i \in Processed : AbsSpread(i) < cfg.min_spread
    /\ \E i \in Tradeable : AbsSpread(i) = cfg.min_spread /\ i \notin Profitable
    /\ result.tradeable_opportunities = 2
    /\ result.profitable_after_costs = 1
    /\ result.total_net_profit > 0

\* lower (inclusive) and upper (exclusive) end of a bucket; the last has no upper end
BucketRange(b) ==
    CASE b = "0-0.05%" -> <<0, 40>>
      [] b = "0.05-0.1%" -> <<40, 80>>
      [] b = "0.1-0.2%" -> <<80, 160>>
      [] b = "0.2-0.5%" -> <<160, 400>>
      [] b = "0.5-1%" -> <<400, 800>>
      [] OTHER -> <<800, -1>>

InRange(a, b) ==
    /\ BucketRange(b)[1] <= a
    /\ BucketRange(b)[2] = -1 \/ a < BucketRange(b)[2]

RECURSIVE SumCounts(_, _)
SumCounts(f, S) ==
    IF S = {} THEN 0
    ELSE LET x == CHOOSE y \in S : TRUE IN f[x] + SumCounts(f, S \ {x})

\* C22: every event is counted in exactly one of the six buckets, the one whose
\* range holds |spread_8h| (boundaries 0.0005, 0.001, 0.002, 0.005 and 0.01 belong
\* to the bucket above), whether or not the event is tradeable; the six counts
\* sum to the number of events, total_opportunities on return
C22_SpreadBuckets ==
    IsProfit =>
        /\ DOMAIN results.spread_distribution = BucketNames
        /\ \A b \in BucketNames :
              results.spread_distribution[b]
                = Cardinality({i \in Processed : InRange(AbsSpread(i), b)})
        /\ \A i \in Processed :
              Cardinality({b \in BucketNames : InRange(AbsSpread(i), b)}) = 1
        /\ SumCounts(results.spread_distribution, BucketNames) = idx
        /\ pc = "returned" =>
              /\ result.total_opportunities = Len(spreads)
              /\ SumCounts(result.spread_distribution, BucketNames)
                   = result.total_opportunities

\* one event of exactly 0.0005 was analysed with min_spread 0.001: it is counted
\* in the bucket 0.05-0.1% although it is not tradeable
C22_Witness ==
    /\ prog = "profit" /\ pc = "returned"
    /\ Len(spreads) = 1
    /\ AbsSpread(1) = 40
    /\ cfg.min_spread = 80
    /\ result.tradeable_opportunities = 0
    /\ result.spread_distribution["0.05-0.1%"] = 1

\* the result of analyze_profitability on the list s
Analyze(s) == ProfitFinish(ProfitFold(s, 1, ResultsZero(Len(s)), cfg))

\* C23 as stated: every rearrangement of the list gives the identical result, and
\* so does a second call on the same list
C23_AsStated ==
    (prog = "profit" /\ pc = "returned") =>
        /\ \A p \in Rearrangements(spreads) : Analyze(p) = result
        /\ calls # <<>> => result = calls[1]

RECURSIVE SumAbs(_)
SumAbs(S) ==
    IF S = {} THEN 0
    ELSE LET i == CHOOSE x \in S : TRUE IN AbsSpread(i) + SumAbs(S \ {i})

\* how far two float sums of the same k + 1 terms can be apart: each is within
\* k * u / (1 - k * u) of the exact sum, u the unit roundoff of the floats
RoundingBound ==
    LET k == Len(spreads) - 1
    IN IF k <= 0 THEN 0
       ELSE (2 * k * SumAbs(1..Len(spreads))) \div (Pow2(MantissaBits) - k) + 1

Close(a, b) == Abs(a - b) <= RoundingBound

\* the counts and keys of two results are the same and their sums are apart by
\* rounding only
SameUpToRounding(r, q) ==
    /\ r.total_opportunities = q.total_opportunities
    /\ r.tradeable_opportunities = q.tradeable_opportunities
    /\ r.profitable_after_costs = q.profitable_after_costs
    /\ r.spread_distribution = q.spread_distribution
    /\ Close(r.total_gross_spread, q.total_gross_spread)
    /\ Close(r.total_net_profit, q.total_net_profit)
    /\ DOMAIN r.by_coin = DOMAIN q.by_coin
    /\ DOMAIN r.by_month = DOMAIN q.by_month
    /\ \A k \in DOMAIN r.by_coin :
          /\ r.by_coin[k].count = q.by_coin[k].count
          /\ Close(r.by_coin[k].gross, q.by_coin[k].gross)
          /\ Close(r.by_coin[k].net, q.by_coin[k].net)
          /\ Close(r.by_coin[k].avg_spread, q.by_coin[k].avg_spread)
    /\ \A k \in DOMAIN r.by_month :
          /\ r.by_month[k].count = q.by_month[k].count
          /\ Close(r.by_month[k].gross, q.by_month[k].gross)
          /\ Close(r.by_month[k].net, q.by_month[k].net)

\* C23 (amended): every rearrangement of the list gives the same counts, buckets
\* and rollup keys, and float sums that differ from those of the result by
\* rounding only; a second call on the same list returns the identical result;
\* the list is not modified
C23_OrderIndependentUpToRounding ==
    /\ []((prog = "profit" /\ pc = "returned") =>
            /\ \A p \in Rearrangements(spreads) : SameUpToRounding(Analyze(p), result)
            /\ calls # <<>> => result = calls[1])
    /\ [][prog = "profit" => spreads' = spreads]_vars

\* the second call has returned, and a rearrangement of the list gives another
\* total_gross_spread than the one returned
C23_Witness ==
    /\ prog = "profit" /\ pc = "returned"
    /\ calls # <<>>
    /\ result = calls[1]
    /\ \E p \in Rearrangements(spreads) :
          Analyze(p).total_gross_spread # result.total_gross_spread

RECURSIVE SumField(_, _, _)
SumField(d, S, f) ==
    IF S = {} THEN 0
    ELSE LET k == CHOOSE x \in S : TRUE IN d[k][f] + SumField(d, S \ {k}, f)

RollupCountsAgree ==
    /\ SumField(result.by_coin, DOMAIN result.by_coin, "count")
         = result.tradeable_opportunities
    /\ SumField(result.by_month, DOMAIN result.by_month, "count")
         = result.tradeable_opportunities
    /\ \A k \in DOMAIN result.by_coin :
          /\ result.by_coin[k].count >= 1
          /\ result.by_coin[k].avg_spread
               = FRoundQ(result.by_coin[k].gross, result.by_coin[k].count)
    /\ result.profitable_after_costs <= result.tradeable_opportunities
    /\ result.tradeable_opportunities <= result.total_opportunities

\* the float sums of field f over the entries of d, taken in every key order
RECURSIVE OrderedSums(_, _, _, _)
OrderedSums(d, S, f, acc) ==
    IF S = {} THEN {acc}
    ELSE UNION {OrderedSums(d, S \ {k}, f, FRoundQ(acc + d[k][f], 1)) : k \in S}

\* the field f of the entries of d sums to t: exactly, or as a float sum
SumsTo(d, f, t) ==
    \/ SumField(d, DOMAIN d, f) = t
    \/ t \in OrderedSums(d, DOMAIN d, f, 0)

\* C28 as stated: the counts agree, and the gross and the net of each rollup sum
\* to total_gross_spread and total_net_profit
C28_AsStated ==
    (prog = "profit" /\ pc = "returned") =>
        /\ RollupCountsAgree
        /\ SumsTo(result.by_coin, "gross", result.total_gross_spread)
        /\ SumsTo(result.by_month, "gross", result.total_gross_spread)
        /\ SumsTo(result.by_coin, "net", result.total_net_profit)
        /\ SumsTo(result.by_month, "net", result.total_net_profit)

\* C28 (amended): the counts of by_coin and of by_month sum to
\* tradeable_opportunities, every by_coin entry has count >= 1 and avg_spread =
\* gross / count, profitable <= tradeable <= total, and the gross and net of
\* each rollup sum to total_gross_spread and total_net_profit up to rounding
C28_RollupsAgreeUpToRounding ==
    (prog = "profit" /\ pc = "returned") =>
        /\ RollupCountsAgree
        /\ Close(SumField(result.by_coin, DOMAIN result.by_coin, "gross"),
                 result.total_gross_spread)
        /\ Close(SumField(result.by_month, DOMAIN result.by_month, "gross"),
                 result.total_gross_spread)
        /\ Close(SumField(result.by_coin, DOMAIN result.by_coin, "net"),
                 result.total_net_profit)
        /\ Close(SumField(result.by_month, DOMAIN result.by_month, "net"),
                 result.total_net_profit)

\* three tradeable events on two coins were analysed and the gross of by_coin
\* does not add up to total_gross_spread exactly
C28_Witness ==
    /\ prog = "profit" /\ pc = "returned"
    /\ result.tradeable_opportunities = 3
    /\ Cardinality(DOMAIN result.by_coin) = 2
    /\ ~SumsTo(result.by_coin, "gross", result.total_gross_spread)

----------------------------------------------------------------------------
(* Properties of the fetch loops and of align_to_funding_time *)

\* the funding times (00:00, 08:00, 16:00) of the days covered and of the next
FundingTimes == {k * 8 * Hour : k \in 0..(3 * MaxDays)}

\* C29: align_to_funding_time returns the nearest funding time among 00:00,
\* 08:00 and 16:00 UTC: the result is a funding time at most 4 hours from the
\* input, no funding time is nearer, and the function maps its result to itself
C29_NearestFundingTime ==
    (prog = "align_time" /\ pc = "returned") =>
        /\ result \in FundingTimes
        /\ Abs(result - timestamp_ms) <= 4 * Hour
        /\ \A f \in FundingTimes : Abs(result - timestamp_ms) <= Abs(f - timestamp_ms)
        /\ AlignToFundingTime(result) = result

\* C30: every fetch loop makes progress on each successful non-empty page: when a
\* page is kept the loop stops or its start cursor strictly increases
C30_PageMakesProgress ==
    [][(prog \in Fetchers /\ pc = "loop" /\ Len(all_rates') > Len(all_rates))
         => (pc' # "loop" \/ current_start' > current_start)]_vars

----------------------------------------------------------------------------
(* Properties of simulate_strategy *)

\* a step of the loop over sorted(events_by_time.keys())
IsSSPeriod == prog = "ss" /\ pc = "loop" /\ n' > n

\* the events of period_events that pass the entry filter and whose symbol is
\* not held after the period
LeftUnopened ==
    {i \in 1..Len(period_events) :
        /\ Abs(period_events[i].rate) >= MIN_FUNDING_RATE
        /\ period_events[i].volume_24h >= MIN_VOLUME_24H
        /\ period_events[i].symbol \notin DOMAIN ss_positions}

\* the symbols whose position was opened at the timestamp of period_events
OpenedNow ==
    {sym \in DOMAIN ss_positions : ss_positions[sym].entry_time = opp.timestamp}

\* C24: when more events qualify at a timestamp than there is free capacity, the
\* highest |rate| is opened first: an event that qualifies and is left unopened
\* never has a strictly greater |rate| than a position opened at that timestamp,
\* and events are left unopened only when MAX_POSITIONS positions are held
C24_HighestRateFirst ==
    (prog = "ss" /\ pc = "loop" /\ n > 0) =>
        \A i \in LeftUnopened :
            /\ Cardinality(DOMAIN ss_positions) = MAX_POSITIONS
            /\ \A sym \in OpenedNow :
                   Abs(period_events[i].rate) <= Abs(ss_positions[sym].entry_rate)

\* a qualifying event is left unopened although it stands in period_events before
\* an event of greater |rate| that was opened
C24_Witness ==
    /\ prog = "ss" /\ pc = "loop" /\ n > 0
    /\ \E i \in LeftUnopened : \E j \in (i + 1)..Len(period_events) :
          /\ period_events[j].symbol \in OpenedNow
          /\ Abs(period_events[j].rate) > Abs(period_events[i].rate)

\* the position on sym held before the step is no longer held after it, or was
\* replaced by one opened at the step's timestamp
ClosedInStep(sym) ==
    \/ sym \notin DOMAIN ss_positions'
    \/ ss_positions'[sym].entry_time = opp'.timestamp

EventFor(sym) == {i \in 1..Len(period_events') : period_events'[i].symbol = sym}

SignMatches(sym, i) ==
    (period_events'[i].rate > 0) = (ss_positions[sym].direction = "long_spot_short_perp")

CostPerSide == (ENTRY_COST * POSITION_SIZE * cfg.capital) \div (10000 * 100)

====
